---- MODULE Spec2Model ----
(***************************************************************************)
(* Model of deejay_set_processor/deduplice_summary.py: the sheet dedup     *)
(* pass of deduplicate_summary and the cell normalizers it relies on.      *)
(*                                                                         *)
(* Text is a sequence of one-character tokens, so that stripping,          *)
(* normalizing, parsing and formatting are computed, not assumed.  Three   *)
(* tokens stand for characters that have no ASCII spelling:                *)
(*   "NBSP"  U+00A0 no-break space                                         *)
(*   "ZWSP"  U+200B zero-width space (Unicode category Cf)                 *)
(*   "e'"    U+00E9 e with acute accent                                    *)
(* and the one-token text <<"None">> stands for the Python value None.     *)
(***************************************************************************)
EXTENDS Integers, Sequences, FiniteSets, TLC

\* ------------------------------------------------------------------------
\* Characters
\* ------------------------------------------------------------------------

Digits == <<"0", "1", "2", "3", "4", "5", "6", "7", "8", "9">>

UpperCase == <<"A", "B", "C", "D", "E", "F", "G", "H", "I", "J", "K", "L", "M",
               "N", "O", "P", "Q", "R", "S", "T", "U", "V", "W", "X", "Y", "Z">>

LowerCase == <<"a", "b", "c", "d", "e", "f", "g", "h", "i", "j", "k", "l", "m",
               "n", "o", "p", "q", "r", "s", "t", "u", "v", "w", "x", "y", "z">>

Range(s) == {s[i] : i \in DOMAIN s}

DigitSet == Range(Digits)
UpperSet == Range(UpperCase)
AlnumSet == Range(Digits) \cup Range(UpperCase) \cup Range(LowerCase) \cup {"e'"}
LowerOf == [ch \in UpperSet |-> LowerCase[CHOOSE i \in DOMAIN UpperCase : UpperCase[i] = ch]]

IsDigit(ch) == ch \in DigitSet

DigitVal(ch) == (CHOOSE i \in DOMAIN Digits : Digits[i] = ch) - 1

\* str.isalnum on one character (accented letters are folded before it is used)
IsAlnum(ch) == ch \in AlnumSet

\* str.lower on one character
LowerCh(ch) == IF ch \in UpperSet THEN LowerOf[ch] ELSE ch

\* the characters str.strip() and str.split() treat as whitespace
IsSpace(ch) == ch \in {" ", "TAB", "CR", "LF", "NBSP"}

None == <<"None">>

\* ------------------------------------------------------------------------
\* Sequence helpers
\* ------------------------------------------------------------------------

RECURSIVE LStrip(_)
LStrip(s) == IF s # <<>> /\ IsSpace(Head(s)) THEN LStrip(Tail(s)) ELSE s

RECURSIVE RStrip(_)
RStrip(s) ==
    IF s # <<>> /\ IsSpace(s[Len(s)]) THEN RStrip(SubSeq(s, 1, Len(s) - 1)) ELSE s

\* str.strip()
Strip(s) == RStrip(LStrip(s))

\* str.rstrip(ch)
RECURSIVE RStripCh(_, _)
RStripCh(s, ch) ==
    IF s # <<>> /\ s[Len(s)] = ch THEN RStripCh(SubSeq(s, 1, Len(s) - 1), ch) ELSE s

\* str.split(sep): the pieces between separators, empty pieces included
RECURSIVE Split(_, _)
Split(s, sep) ==
    IF \A i \in DOMAIN s : s[i] # sep THEN <<s>>
    ELSE LET k == CHOOSE i \in DOMAIN s : s[i] = sep /\ \A j \in 1..(i - 1) : s[j] # sep
         IN  <<SubSeq(s, 1, k - 1)>> \o Split(SubSeq(s, k + 1, Len(s)), sep)

\* " ".join(s.split()): whitespace runs collapse to one space, ends trimmed
RECURSIVE CollapseWs(_)
CollapseWs(s) ==
    LET t == LStrip(s) IN
    IF t = <<>> THEN <<>>
    ELSE LET k == IF \E i \in DOMAIN t : IsSpace(t[i])
                  THEN (CHOOSE i \in DOMAIN t : IsSpace(t[i]) /\ \A j \in 1..(i - 1) : ~IsSpace(t[j])) - 1
                  ELSE Len(t)
             rest == CollapseWs(SubSeq(t, k + 1, Len(t)))
         IN  SubSeq(t, 1, k) \o (IF rest = <<>> THEN <<>> ELSE <<" ">> \o rest)

\* ------------------------------------------------------------------------
\* Integers as decimal text
\* ------------------------------------------------------------------------

RECURSIVE NatToStr(_)
NatToStr(n) == IF n < 10 THEN <<Digits[n + 1]>> ELSE NatToStr(n \div 10) \o <<Digits[(n % 10) + 1]>>

\* str(n) for an int
IntToStr(n) == IF n < 0 THEN <<"-">> \o NatToStr(0 - n) ELSE NatToStr(n)

RECURSIVE DigitsVal(_)
DigitsVal(s) == IF s = <<>> THEN 0 ELSE DigitsVal(SubSeq(s, 1, Len(s) - 1)) * 10 + DigitVal(s[Len(s)])

AllDigits(s) == s # <<>> /\ \A i \in DOMAIN s : IsDigit(s[i])

\* int(s): surrounding whitespace and one sign are accepted, then digits only.
\* ok = FALSE stands for ValueError.
ParseInt(s) ==
    LET t == Strip(s)
        signed == t # <<>> /\ Head(t) \in {"+", "-"}
        body == IF signed THEN Tail(t) ELSE t
    IN  IF AllDigits(body)
        THEN [ok |-> TRUE, val |-> IF signed /\ Head(t) = "-" THEN 0 - DigitsVal(body) ELSE DigitsVal(body)]
        ELSE [ok |-> FALSE, val |-> 0]

\* ------------------------------------------------------------------------
\* Cell normalizers
\* ------------------------------------------------------------------------

\* NFKD, drop combining marks (category Mn), NFKC: an accented letter becomes
\* its base letter
FoldAccent(ch) == IF ch = "e'" THEN "e" ELSE ch

\* category Cf: invisible format characters
IsFormatCh(ch) == ch = "ZWSP"

_normalize_key_cell(value) ==
    LET s0 == IF value = None THEN <<>> ELSE value
        s1 == [i \in DOMAIN s0 |-> IF s0[i] \in {"NBSP", "TAB", "CR", "LF"} THEN " " ELSE s0[i]]
        s2 == [i \in DOMAIN s1 |-> FoldAccent(s1[i])]
        s3 == SelectSeq(s2, LAMBDA ch : ~IsFormatCh(ch))
    IN  CollapseWs(s3)

_strip_cell_value(value) ==
    IF value = None THEN <<>>
    ELSE Strip([i \in DOMAIN value |-> IF value[i] = "NBSP" THEN " " ELSE value[i]])

\* str.lower() of a text
LowerStr(s) == [i \in DOMAIN s |-> LowerCh(s[i])]

\* f"{n:02d}" for n >= 0
Pad2(n) == IF n < 10 THEN <<"0">> \o NatToStr(n) ELSE NatToStr(n)

\* _normalize_length gone wrong: the text is compared as it is spelled
NormalizeLengthVerbatim(value) == _normalize_key_cell(value)

_normalize_length(value) ==
    LET s == _normalize_key_cell(value)
        pieces == Split(s, ":")
        stripped == [i \in DOMAIN pieces |-> Strip(pieces[i])]
        parts == SelectSeq(stripped, LAMBDA p : p # <<>>)
        n == Len(parts)
        pi == [i \in DOMAIN parts |-> ParseInt(parts[i])]
        h == IF n = 3 THEN pi[1].val ELSE 0
        m == IF n = 3 THEN pi[2].val ELSE pi[1].val
        sec == IF n = 3 THEN pi[3].val ELSE pi[2].val
    IN  IF s = <<>> THEN <<>>
        ELSE IF n \notin {2, 3} THEN s
        ELSE IF \E i \in DOMAIN pi : ~pi[i].ok THEN s
        ELSE IF h < 0 \/ m < 0 \/ sec < 0 \/ sec >= 60 \/ m >= 60 THEN s
        ELSE IF h = 0 THEN IntToStr(m) \o <<":">> \o Pad2(sec)
        ELSE IntToStr(h) \o <<":">> \o Pad2(m) \o <<":">> \o Pad2(sec)

\* "%f" prints six digits after the decimal point
FracDigits == 6

RECURSIVE Pow10(_)
Pow10(k) == IF k = 0 THEN 1 ELSE 10 * Pow10(k - 1)

\* float(s) on the texts the sheets hold here: an optional sign, then digits
\* with an optional fraction, or one of the special spellings nan, inf,
\* infinity (any case).  A number is kept exactly, as an integer count of
\* 10^-FracDigits units (fractions longer than FracDigits are cut).
\* kind = "fail" stands for ValueError.
ParseFloat(s) ==
    LET t == Strip(s)
        signed == t # <<>> /\ Head(t) \in {"+", "-"}
        neg == signed /\ Head(t) = "-"
        body == IF signed THEN Tail(t) ELSE t
        low == LowerStr(body)
        pieces == Split(body, ".")
        ip == pieces[1]
        fp == IF Len(pieces) = 2 THEN pieces[2] ELSE <<>>
        wellFormed == /\ Len(pieces) \in {1, 2}
                      /\ \A i \in DOMAIN ip : IsDigit(ip[i])
                      /\ \A i \in DOMAIN fp : IsDigit(fp[i])
                      /\ ip # <<>> \/ fp # <<>>
        fcut == SubSeq(fp, 1, IF Len(fp) < FracDigits THEN Len(fp) ELSE FracDigits)
        mag == DigitsVal(ip) * Pow10(FracDigits) + DigitsVal(fcut) * Pow10(FracDigits - Len(fcut))
    IN  IF low = <<"n", "a", "n">> THEN [kind |-> "nan", units |-> 0]
        ELSE IF low \in {<<"i", "n", "f">>, <<"i", "n", "f", "i", "n", "i", "t", "y">>}
             THEN [kind |-> "inf", units |-> 0]
        ELSE IF wellFormed THEN [kind |-> "num", units |-> IF neg THEN 0 - mag ELSE mag]
        ELSE [kind |-> "fail", units |-> 0]

\* round(f) raises ValueError for nan and OverflowError for an infinity, and
\* _normalize_bpm calls it outside its try block
BpmRaises(value) ==
    LET s == _normalize_key_cell(value)
    IN  s # <<>> /\ ParseFloat(s).kind \in {"nan", "inf"}

\* ("%f" % f).rstrip("0").rstrip(".") for a number given in units
FormatFixed(units) ==
    LET mag == IF units < 0 THEN 0 - units ELSE units
        ip == NatToStr(mag \div Pow10(FracDigits))
        fr == NatToStr(mag % Pow10(FracDigits))
        zeros == [i \in 1..(FracDigits - Len(fr)) |-> "0"]
        full == (IF units < 0 THEN <<"-">> ELSE <<>>) \o ip \o <<".">> \o zeros \o fr
    IN  RStripCh(RStripCh(full, "0"), ".")

\* the value returned when BpmRaises(value) is false
_normalize_bpm(value) ==
    LET s == _normalize_key_cell(value)
        f == ParseFloat(s)
    IN  IF s = <<>> THEN <<>>
        ELSE IF f.kind # "num" THEN s
        ELSE IF f.units % Pow10(FracDigits) = 0 THEN IntToStr(f.units \div Pow10(FracDigits))
        ELSE FormatFixed(f.units)

\* ------------------------------------------------------------------------
\* Columns, identity key and optional profile
\* ------------------------------------------------------------------------

CountName == <<"C", "o", "u", "n", "t">>
TitleName == <<"T", "i", "t", "l", "e">>
LengthName == <<"L", "e", "n", "g", "t", "h">>
BpmName == <<"B", "P", "M">>
CommentName == <<"C", "o", "m", "m", "e", "n", "t">>
GenreName == <<"G", "e", "n", "r", "e">>
YearName == <<"Y", "e", "a", "r">>

\* Columns are numbered from 1; 0 stands for None (no such column).
_find_column_index_ci(hdr, target) ==
    LET hit(i) == LowerStr(_normalize_key_cell(hdr[i])) = LowerStr(_normalize_key_cell(target))
    IN  IF \E i \in DOMAIN hdr : hit(i)
        THEN CHOOSE i \in DOMAIN hdr : hit(i) /\ \A j \in 1..(i - 1) : ~hit(j)
        ELSE 0

\* ------------------------------------------------------------------------
\* State of one run of deduplicate_summary over one sheet
\* ------------------------------------------------------------------------

VARIABLES
    sheet,                \* the table the spreadsheet tab holds (header first)
    run,                  \* "first": the first run; "rerun": a run over its output
    pc,                   \* position in deduplicate_summary
    data,                 \* the table get_sheet_values returned
    header,               \* data[0], Count column appended if it was missing
    rows,                 \* data[1:], Count-completed, length-normalized, stripped
    count_index, title_index, length_index, bpm_index,
    optional_indices,     \* the optional columns that are present
    pos,                  \* number of the row the scan handles next (from 1)
    identity_to_entries,  \* insertion-ordered: <<[key, entries]>>, entries a list
    merged_into,          \* history: per scanned row, <<group, entry>> it went to
    final_data,           \* [header] + deduped_rows
    \* the loop over the tabs of the spreadsheet
    pending,              \* the tabs the loop has not reached yet, in order
    done,                 \* history: the tabs the loop is through with
    calls,                \* history: the remote calls issued, as <<call, tab, how
                          \* it ended>>
    \* one execution of _with_retry
    max_attempts, base_delay_s, max_delay_s,
    retry_pc,             \* position in _with_retry
    attempt,              \* the loop variable of line 58
    last_err,             \* the error the most recent failed invocation raised
    retry_after,          \* what _get_retry_after_seconds returned
    backoff,              \* the delay before jitter
    sleep_s,              \* the delay handed to time.sleep
    outcome,              \* what _with_retry returned or raised
    fn_value,             \* history: what the most recent invocation returned
    invocations,          \* history: the number of calls of fn
    failures,             \* history: the number of calls of fn that raised
    sleeps,               \* history: the number of calls of time.sleep
    \* one call of generate_next_missing_summary
    year_folders,         \* the folders listed under DJ_SETS_FOLDER_ID, in order
    folder_no,            \* number of the folder the loop of line 92 handles next
    processed_any,        \* the flag of line 90
    examined,             \* history: the folders whose summary was looked up
    generated,            \* history: the folders a summary was generated for
    \* one call of normalize_prefixes_in_source
    version,              \* which of the two definitions runs
    names,                \* the name each file of the source folder holds now
    existing_names,       \* the set of line 34 of process_new_files.py
    file_no,              \* number of the listed file the loop handles next
    renames               \* history: the renames issued, as <<file, old, new>>

dedup_vars == <<sheet, run, pc, data, header, rows, count_index, title_index,
                length_index, bpm_index, optional_indices, pos, identity_to_entries,
                merged_into, final_data>>

loop_vars == <<pending, done, calls>>

retry_vars == <<max_attempts, base_delay_s, max_delay_s, retry_pc, attempt, last_err,
                retry_after, backoff, sleep_s, outcome, fn_value, invocations, failures,
                sleeps>>

drive_vars == <<year_folders, folder_no, processed_any, examined, generated,
                version, names, existing_names, file_no, renames>>

vars == <<dedup_vars, loop_vars, retry_vars, drive_vars>>

\* Count completion: without a Count column every row gains one more cell,
\* "1", at its own end (ci is the Count column found in the header, 0 if none)
CompleteCountRows(ci, rws) ==
    IF ci = 0 THEN [i \in DOMAIN rws |-> rws[i] \o <<<<"1">>>>] ELSE rws

CompleteCountHeader(ci, hdr) ==
    IF ci = 0 THEN hdr \o <<CountName>> ELSE hdr

NormalizeRowNoTruncate(row, n) ==
    LET fit == IF Len(row) < n THEN row \o [i \in 1..(n - Len(row)) |-> <<>>]
               ELSE row
    IN  [i \in DOMAIN fit |-> _strip_cell_value(fit[i])]

\* Row-length normalization and stripping of every cell
NormalizeRow(row, n) ==
    LET fit == IF Len(row) < n THEN row \o [i \in 1..(n - Len(row)) |-> <<>>]
               ELSE IF Len(row) > n THEN SubSeq(row, 1, n)
               ELSE row
    IN  [i \in DOMAIN fit |-> _strip_cell_value(fit[i])]

PresentIndices(hdr) ==
    SelectSeq(<<_find_column_index_ci(hdr, CommentName), _find_column_index_ci(hdr, GenreName),
                _find_column_index_ci(hdr, YearName), _find_column_index_ci(hdr, LengthName),
                _find_column_index_ci(hdr, BpmName)>>, LAMBDA i : i # 0)

\* int(_strip_cell_value(row[count_index])), 0 when int() raises
RowCount(row) ==
    LET p == ParseInt(_strip_cell_value(row[count_index]))
    IN  IF p.ok THEN p.val ELSE 0

\* the value returned when the BPM normalizer does not raise
_norm_optional(col_i, cell) ==
    LET s == _normalize_key_cell(cell)
    IN  IF s = <<>> THEN <<>>
        ELSE IF length_index # 0 /\ col_i = length_index THEN _normalize_length(s)
        ELSE IF bpm_index # 0 /\ col_i = bpm_index THEN _normalize_bpm(s)
        ELSE s

\* the row makes _norm_optional raise (through _normalize_bpm)
NormOptionalRaises(row) ==
    bpm_index # 0 /\ bpm_index # length_index /\ BpmRaises(row[bpm_index])

IdentityPartKeepsPunctuation(row, col_i) == LowerStr(_normalize_key_cell(row[col_i]))

IdentityPart(row, col_i) ==
    LET norm == _normalize_key_cell(row[col_i])
        kept == IF title_index # 0 /\ col_i = title_index
                THEN SelectSeq(norm, IsAlnum)
                ELSE norm
    IN  LowerStr(kept)

IdentityKey(row) ==
    LET cols == SelectSeq([i \in DOMAIN row |-> i],
                          LAMBDA c : c # count_index /\ c \notin Range(optional_indices))
    IN  [k \in DOMAIN cols |-> IdentityPart(row, cols[k])]

OptNorm(row) == [i \in Range(optional_indices) |-> _norm_optional(i, row[i])]

\* ------------------------------------------------------------------------
\* Merge entries
\* ------------------------------------------------------------------------

\* Compatible gone wrong: a row only joins an entry whose profile equals its own
CompatibleOnlyEqual(entry_opt, opt_norm) == entry_opt = opt_norm

\* the compatibility test of the entry scan: no optional column is non-empty
\* on both sides with different values
Compatible(entry_opt, opt_norm) ==
    \A i \in Range(optional_indices) :
        ~(entry_opt[i] # <<>> /\ opt_norm[i] # <<>> /\ entry_opt[i] # opt_norm[i])

\* MatchedEntry gone wrong: only the entry created last is looked at (the
\* adjacent-only merge of the earlier script variants)
MatchedEntryLastOnly(entries, opt_norm) ==
    IF entries # <<>> /\ Compatible(entries[Len(entries)].opt_norm, opt_norm)
    THEN Len(entries)
    ELSE 0

MatchedEntryLastCompatible(entries, opt_norm) ==
    IF \E e \in DOMAIN entries : Compatible(entries[e].opt_norm, opt_norm)
    THEN CHOOSE e \in DOMAIN entries :
            /\ Compatible(entries[e].opt_norm, opt_norm)
            /\ \A d \in (e + 1)..Len(entries) : ~Compatible(entries[d].opt_norm, opt_norm)
    ELSE 0

\* position of the first compatible entry in the list, 0 when there is none
MatchedEntry(entries, opt_norm) ==
    IF \E e \in DOMAIN entries : Compatible(entries[e].opt_norm, opt_norm)
    THEN CHOOSE e \in DOMAIN entries :
            /\ Compatible(entries[e].opt_norm, opt_norm)
            /\ \A d \in 1..(e - 1) : ~Compatible(entries[d].opt_norm, opt_norm)
    ELSE 0

\* NewEntry gone wrong: a new entry starts at one occurrence, whatever the
\* row's Count cell says
NewEntryCountOne(row, row_count, opt_norm) ==
    [row |-> [row EXCEPT ![count_index] = <<"1">>],
     count |-> 1,
     opt_norm |-> opt_norm]

NewEntry(row, row_count, opt_norm) ==
    [row |-> [row EXCEPT ![count_index] = IntToStr(row_count)],
     count |-> row_count,
     opt_norm |-> opt_norm]

\* MergeEntry gone wrong: the profile is back-filled, the template row is not
MergeEntryNoTemplateFill(entry, row, row_count, opt_norm) ==
    LET fill(i) == i \in Range(optional_indices) /\ entry.opt_norm[i] = <<>> /\ opt_norm[i] # <<>>
    IN  [row |-> [entry.row EXCEPT ![count_index] = IntToStr(entry.count + row_count)],
         count |-> entry.count + row_count,
         opt_norm |-> [i \in Range(optional_indices) |->
                         IF fill(i) THEN opt_norm[i] ELSE entry.opt_norm[i]]]

\* MergeEntry gone wrong: the template row is back-filled, the profile is not
MergeEntryKeepProfile(entry, row, row_count, opt_norm) ==
    LET fill(i) == i \in Range(optional_indices) /\ entry.opt_norm[i] = <<>> /\ opt_norm[i] # <<>>
        counted == [entry.row EXCEPT ![count_index] = IntToStr(entry.count + row_count)]
    IN  [row |-> [i \in DOMAIN counted |->
                    IF fill(i) /\ i <= Len(row) THEN row[i] ELSE counted[i]],
         count |-> entry.count + row_count,
         opt_norm |-> entry.opt_norm]

\* MergeEntry gone wrong: the template is back-filled with the normalized
\* value instead of the row's own text
MergeEntryStoreNormalized(entry, row, row_count, opt_norm) ==
    LET fill(i) == i \in Range(optional_indices) /\ entry.opt_norm[i] = <<>> /\ opt_norm[i] # <<>>
        counted == [entry.row EXCEPT ![count_index] = IntToStr(entry.count + row_count)]
    IN  [row |-> [i \in DOMAIN counted |->
                    IF fill(i) /\ i <= Len(row) THEN opt_norm[i] ELSE counted[i]],
         count |-> entry.count + row_count,
         opt_norm |-> [i \in Range(optional_indices) |->
                         IF fill(i) THEN opt_norm[i] ELSE entry.opt_norm[i]]]

\* MergeEntry gone wrong: every merged row counts as one occurrence
MergeEntryCountOne(entry, row, row_count, opt_norm) ==
    LET fill(i) == i \in Range(optional_indices) /\ entry.opt_norm[i] = <<>> /\ opt_norm[i] # <<>>
        counted == [entry.row EXCEPT ![count_index] = IntToStr(entry.count + 1)]
    IN  [row |-> [i \in DOMAIN counted |->
                    IF fill(i) /\ i <= Len(row) THEN row[i] ELSE counted[i]],
         count |-> entry.count + 1,
         opt_norm |-> [i \in Range(optional_indices) |->
                         IF fill(i) THEN opt_norm[i] ELSE entry.opt_norm[i]]]

\* MergeEntry gone wrong: the row's optional values replace the entry's,
\* empty or not
MergeEntryOverwrites(entry, row, row_count, opt_norm) ==
    LET fill(i) == i \in Range(optional_indices) /\ opt_norm[i] # <<>>
        counted == [entry.row EXCEPT ![count_index] = IntToStr(entry.count + row_count)]
    IN  [row |-> [i \in DOMAIN counted |->
                    IF fill(i) /\ i <= Len(row) THEN row[i] ELSE counted[i]],
         count |-> entry.count + row_count,
         opt_norm |-> [i \in Range(optional_indices) |->
                         IF fill(i) THEN opt_norm[i] ELSE entry.opt_norm[i]]]

MergeEntry(entry, row, row_count, opt_norm) ==
    LET fill(i) == i \in Range(optional_indices) /\ entry.opt_norm[i] = <<>> /\ opt_norm[i] # <<>>
        counted == [entry.row EXCEPT ![count_index] = IntToStr(entry.count + row_count)]
    IN  [row |-> [i \in DOMAIN counted |->
                    IF fill(i) /\ i <= Len(row) THEN row[i] ELSE counted[i]],
         count |-> entry.count + row_count,
         opt_norm |-> [i \in Range(optional_indices) |->
                         IF fill(i) THEN opt_norm[i] ELSE entry.opt_norm[i]]]

\* position of the key in the dict, 0 when it is not there
GroupOf(groups, key) ==
    IF \E g \in DOMAIN groups : groups[g].key = key
    THEN CHOOSE g \in DOMAIN groups : groups[g].key = key
    ELSE 0

RECURSIVE DedupedRowsNewestFirst(_)
DedupedRowsNewestFirst(groups) ==
    IF groups = <<>> THEN <<>>
    ELSE DedupedRowsNewestFirst(Tail(groups))
         \o [e \in DOMAIN Head(groups).entries |-> Head(groups).entries[e].row]

RECURSIVE DedupedRowsEntriesReversed(_)
DedupedRowsEntriesReversed(groups) ==
    IF groups = <<>> THEN <<>>
    ELSE LET es == Head(groups).entries
         IN  [e \in DOMAIN es |-> es[Len(es) + 1 - e].row]
             \o DedupedRowsEntriesReversed(Tail(groups))

\* [header] + deduped_rows: the groups in insertion order, each group's
\* entries in list order
RECURSIVE DedupedRows(_)
DedupedRows(groups) ==
    IF groups = <<>> THEN <<>>
    ELSE [e \in DOMAIN Head(groups).entries |-> Head(groups).entries[e].row]
         \o DedupedRows(Tail(groups))

\* UpdateEntries gone wrong: a new entry replaces the list instead of joining it
UpdateEntriesReplace(entries, row, row_count, opt_norm) ==
    LET m == MatchedEntry(entries, opt_norm)
    IN  IF m = 0 THEN <<NewEntry(row, row_count, opt_norm)>>
        ELSE [entries EXCEPT ![m] = MergeEntry(entries[m], row, row_count, opt_norm)]

\* the entry list of one identity key after one more row: merged into the
\* first compatible entry, or a new entry appended
UpdateEntries(entries, row, row_count, opt_norm) ==
    LET m == MatchedEntry(entries, opt_norm)
    IN  IF m = 0 THEN Append(entries, NewEntry(row, row_count, opt_norm))
        ELSE [entries EXCEPT ![m] = MergeEntry(entries[m], row, row_count, opt_norm)]

\* values.update at A1 overwrites the rows it is given and leaves the rows
\* below them as they were
Overwrite(old, new) == new \o SubSeq(old, Len(new) + 1, Len(old))

\* ------------------------------------------------------------------------
\* Sheets the runs start from
\* ------------------------------------------------------------------------

MaxRows == 3

SongA == <<"S", "o", "n", "g", " ", "A">>
SongAVariant == <<"s", "o", "n", "g", "NBSP", "a", "!">>
SongB == <<"S", "o", "n", "g", " ", "B">>
Rock == <<"R", "o", "c", "k">>
RockPadded == <<"NBSP", "R", "o", "c", "k", "ZWSP", " ">>
Jazz == <<"J", "a", "z", "z">>
Y1999 == <<"1", "9", "9", "9">>
Empty == <<>>

\* a tab without a Count column
HeaderNoCount == <<TitleName, LengthName, BpmName>>

RowsNoCount == {
    <<SongA, <<"3", ":", "0", "0">>, <<"1", "0", "0">>>>,
    <<SongA, <<"0", "3", ":", "0", "0">>, <<"1", "0", "0", ".", "0">>>>,
    <<SongAVariant, <<"0", ":", "0", "3", ":", "0", "0">>, <<"1", "0", "0", ".", "5", "0">>>>,
    <<SongA, Empty, Empty>>,
    <<SongA>>,
    <<SongA, <<"3", ":", "0", "0">>, <<"n", "a", "n">>>>,
    <<SongB, <<"3", ":", "0", "0">>, <<"1", "0", "0">>, <<"x">>>>
}

\* a tab with a Count column (spelled in lower case)
HeaderWithCount == <<TitleName, GenreName, YearName, <<"c", "o", "u", "n", "t">>>>

RowsWithCount == {
    <<SongA, Rock, Empty, <<"1">>>>,
    <<SongA, Empty, Y1999, <<"2">>>>,
    <<SongA, Jazz, Empty, <<"n", "/", "a">>>>,
    <<SongAVariant, RockPadded, Empty, <<"0", "3">>>>,
    <<SongA, Empty, Empty, <<"1">>>>,
    <<SongB, None, Y1999, <<" ", "4">>>>,
    <<SongA, Jazz>>
}

TablesOf(hdr, pool) ==
    {<<hdr>> \o rws : rws \in UNION {[1..n -> pool] : n \in 0..MaxRows}}

Tables == TablesOf(HeaderNoCount, RowsNoCount) \cup TablesOf(HeaderWithCount, RowsWithCount)

\* ------------------------------------------------------------------------
\* deduplicate_summary
\* ------------------------------------------------------------------------

Locals0 ==
    /\ data = <<>>
    /\ header = <<>>
    /\ rows = <<>>
    /\ count_index = 0
    /\ title_index = 0
    /\ length_index = 0
    /\ bpm_index = 0
    /\ optional_indices = <<>>
    /\ pos = 0
    /\ identity_to_entries = <<>>
    /\ merged_into = <<>>
    /\ final_data = <<>>

\* the spreadsheet has the one tab `sheet`; no remote call was issued yet
Loop0 ==
    /\ pending = <<>>
    /\ done = <<>>
    /\ calls = <<>>

\* last_err = None
NoError == [type |-> "none", status |-> 0, hint |-> None, at |-> 0]

\* a number of seconds that is None
NoSeconds == [some |-> FALSE, units |-> 0]

\* _with_retry has neither returned nor raised
NoOutcome == [kind |-> "none", value |-> None, error |-> NoError]

\* the locals of _with_retry before its loop
RetryLocals0 ==
    /\ last_err = NoError
    /\ retry_after = NoSeconds
    /\ backoff = 0
    /\ sleep_s = 0
    /\ outcome = NoOutcome
    /\ fn_value = None
    /\ invocations = 0
    /\ failures = 0
    /\ sleeps = 0

\* no execution of _with_retry is followed
Retry0 ==
    /\ max_attempts = 0
    /\ base_delay_s = 0
    /\ max_delay_s = 0
    /\ retry_pc = "idle"
    /\ attempt = 0
    /\ RetryLocals0

\* neither generate_next_missing_summary nor normalize_prefixes_in_source is
\* followed
Drive0 ==
    /\ year_folders = <<>>
    /\ folder_no = 0
    /\ processed_any = FALSE
    /\ examined = <<>>
    /\ generated = <<>>
    /\ version = "none"
    /\ names = <<>>
    /\ existing_names = {}
    /\ file_no = 0
    /\ renames = <<>>

Init ==
    /\ sheet \in Tables
    /\ run = "first"
    /\ pc = "read"
    /\ Locals0
    /\ Loop0
    /\ Retry0
    /\ Drive0

GetSheetValues ==
    /\ pc = "read"
    /\ data' = sheet
    /\ pc' = "check"
    /\ UNCHANGED <<sheet, run, header, rows, count_index, title_index, length_index,
                   bpm_index, optional_indices, pos, identity_to_entries, merged_into,
                   final_data>>

SkipSheetRewrites ==
    /\ pc = "check"
    /\ Len(data) < 2
    /\ pc' = "clear"
    /\ UNCHANGED <<sheet, run, data, header, rows, count_index, title_index, length_index,
                   bpm_index, optional_indices, pos, identity_to_entries, merged_into,
                   final_data>>

\* an empty or header-only sheet is skipped
SkipSheet ==
    /\ pc = "check"
    /\ Len(data) < 2
    /\ pc' = "skipped"
    /\ UNCHANGED <<sheet, run, data, header, rows, count_index, title_index, length_index,
                   bpm_index, optional_indices, pos, identity_to_entries, merged_into,
                   final_data>>

\* Count completion, row normalization, column lookup
Prepare ==
    /\ pc = "check"
    /\ Len(data) >= 2
    /\ LET ci == _find_column_index_ci(data[1], CountName)
           hdr == CompleteCountHeader(ci, data[1])
           rws == CompleteCountRows(ci, Tail(data))
       IN  /\ header' = hdr
           /\ count_index' = IF ci = 0 THEN Len(hdr) ELSE ci
           /\ rows' = [i \in DOMAIN rws |-> NormalizeRow(rws[i], Len(hdr))]
           /\ title_index' = _find_column_index_ci(hdr, TitleName)
           /\ length_index' = _find_column_index_ci(hdr, LengthName)
           /\ bpm_index' = _find_column_index_ci(hdr, BpmName)
           /\ optional_indices' = PresentIndices(hdr)
    /\ pos' = 1
    /\ identity_to_entries' = <<>>
    /\ merged_into' = <<>>
    /\ pc' = "scan"
    /\ UNCHANGED <<sheet, run, data, final_data>>

\* one iteration of the row scan
ScanRow ==
    /\ pc = "scan"
    /\ pos <= Len(rows)
    /\ LET row == rows[pos] IN
       IF NormOptionalRaises(row)
       THEN /\ pc' = "raised"
            /\ UNCHANGED <<pos, identity_to_entries, merged_into>>
       ELSE LET row_count == RowCount(row)
                identity_key == IdentityKey(row)
                opt_norm == OptNorm(row)
                g0 == GroupOf(identity_to_entries, identity_key)
                groups == IF g0 = 0
                          THEN Append(identity_to_entries, [key |-> identity_key, entries |-> <<>>])
                          ELSE identity_to_entries
                g == IF g0 = 0 THEN Len(groups) ELSE g0
                m == MatchedEntry(groups[g].entries, opt_norm)
            IN  /\ identity_to_entries' =
                      [groups EXCEPT ![g].entries = UpdateEntries(@, row, row_count, opt_norm)]
                /\ merged_into' =
                      Append(merged_into, <<g, IF m = 0 THEN Len(groups[g].entries) + 1 ELSE m>>)
                /\ pos' = pos + 1
                /\ pc' = "scan"
    /\ UNCHANGED <<sheet, run, data, header, rows, count_index, title_index, length_index,
                   bpm_index, optional_indices, final_data>>

\* the scan is over: collect the template rows
EmitRows ==
    /\ pc = "scan"
    /\ pos > Len(rows)
    /\ final_data' = <<header>> \o DedupedRows(identity_to_entries)
    /\ pc' = "clear"
    /\ UNCHANGED <<sheet, run, data, header, rows, count_index, title_index, length_index,
                   bpm_index, optional_indices, pos, identity_to_entries, merged_into>>

ClearSheetLeavesRows ==
    /\ pc = "clear"
    /\ sheet' = sheet
    /\ pc' = "write"
    /\ UNCHANGED <<run, data, header, rows, count_index, title_index, length_index,
                   bpm_index, optional_indices, pos, identity_to_entries, merged_into,
                   final_data>>

ClearSheet ==
    /\ pc = "clear"
    /\ sheet' = <<>>
    /\ pc' = "write"
    /\ UNCHANGED <<run, data, header, rows, count_index, title_index, length_index,
                   bpm_index, optional_indices, pos, identity_to_entries, merged_into,
                   final_data>>

UpdateValues ==
    /\ pc = "write"
    /\ sheet' = Overwrite(sheet, final_data)
    /\ pc' = "written"
    /\ UNCHANGED <<run, data, header, rows, count_index, title_index, length_index,
                   bpm_index, optional_indices, pos, identity_to_entries, merged_into,
                   final_data>>

\* deduplicate_summary is invoked again on the spreadsheet it has rewritten
Rerun ==
    /\ pc = "written"
    /\ run = "first"
    /\ run' = "rerun"
    /\ pc' = "read"
    /\ data' = <<>>
    /\ header' = <<>>
    /\ rows' = <<>>
    /\ count_index' = 0
    /\ title_index' = 0
    /\ length_index' = 0
    /\ bpm_index' = 0
    /\ optional_indices' = <<>>
    /\ pos' = 0
    /\ identity_to_entries' = <<>>
    /\ merged_into' = <<>>
    /\ final_data' = <<>>
    /\ UNCHANGED sheet

\* a step that issues the remote call `call` for the tab the loop is at
Remote(call) ==
    /\ calls' = Append(calls, <<call, Len(done) + 1, "ok">>)
    /\ UNCHANGED <<pending, done>>
    /\ UNCHANGED <<retry_vars, drive_vars>>

\* a step that issues no remote call
Locally == UNCHANGED <<loop_vars, retry_vars, drive_vars>>

Next ==
    \/ GetSheetValues /\ Remote("get_sheet_values")
    \/ SkipSheet /\ Locally
    \/ Prepare /\ Locally
    \/ ScanRow /\ Locally
    \/ EmitRows /\ Locally
    \/ ClearSheet /\ Remote("clear_sheet")
    \/ UpdateValues /\ Remote("values.update")
    \/ Rerun /\ Locally

Spec == Init /\ [][Next]_vars

\* the runs that start from a tab that has a Count column and rows as long as
\* its header
RowsCounted == {r \in RowsWithCount : Len(r) = Len(HeaderWithCount)}

InitCounted ==
    /\ sheet \in TablesOf(HeaderWithCount, RowsCounted)
    /\ run = "first"
    /\ pc = "read"
    /\ Locals0
    /\ Loop0
    /\ Retry0
    /\ Drive0

SpecCounted == InitCounted /\ [][Next]_vars

\* a tab with an identity column besides Title
ArtistName == <<"A", "r", "t", "i", "s", "t">>
Abba == <<"A", "b", "b", "a">>
AbbaShouted == <<"A", "B", "B", "A", " ">>
AbbaBang == <<"A", "b", "b", "a", "!">>

HeaderKeyed == <<TitleName, ArtistName, GenreName, CountName>>

RowsKeyed == {
    <<SongA, Abba, Rock, <<"1">>>>,
    <<SongA, Abba, Rock, <<"5">>>>,
    <<SongAVariant, Abba, Empty, <<"2">>>>,
    <<SongA, AbbaShouted, Rock, <<"1">>>>,
    <<SongA, AbbaBang, Rock, <<"1">>>>,
    <<SongB, Abba, Jazz, <<"1">>>>
}

InitKeyed ==
    /\ sheet \in TablesOf(HeaderKeyed, RowsKeyed)
    /\ run = "first"
    /\ pc = "read"
    /\ Locals0
    /\ Loop0
    /\ Retry0
    /\ Drive0

SpecKeyed == InitKeyed /\ [][Next]_vars

\* tabs of at most one row whose Length cell is up to MaxParts parts joined
\* by colons, a part being empty, a number, or a number out of range
MaxParts == 4

LengthParts == {<<>>, <<"5">>, <<"0", "7">>, <<"6", "1">>, <<"-", "1">>}

RECURSIVE JoinColon(_)
JoinColon(ps) ==
    IF Len(ps) = 1 THEN ps[1] ELSE ps[1] \o <<":">> \o JoinColon(Tail(ps))

LengthTexts == {JoinColon(ps) : ps \in UNION {[1..n -> LengthParts] : n \in 1..MaxParts}}

HeaderLength == <<TitleName, LengthName, CountName>>

InitLength ==
    /\ sheet \in {<<HeaderLength>>}
                  \cup {<<HeaderLength, <<SongA, t, <<"1">>>>>> : t \in LengthTexts}
    /\ run = "first"
    /\ pc = "read"
    /\ Locals0
    /\ Loop0
    /\ Retry0
    /\ Drive0

SpecLength == InitLength /\ [][Next]_vars

\* ------------------------------------------------------------------------
\* The loop over the tabs, with remote calls that may fail for good
\* ------------------------------------------------------------------------

MaxSheets == 2
MaxLoopRows == 2

LoopRows == {
    <<SongA, Rock, Empty, <<"1">>>>,
    <<SongA, Empty, Y1999, <<"2">>>>
}

\* what a tab may hold: nothing at all, a header alone, a header and rows
LoopTables ==
    {<<>>} \cup {<<HeaderWithCount>> \o rws :
                     rws \in UNION {[1..n -> LoopRows] : n \in 0..MaxLoopRows}}

\* the state before spreadsheets.get: `sheet` is the first tab
InitLoop ==
    /\ \E tabs \in UNION {[1..n -> LoopTables] : n \in 1..MaxSheets} :
          /\ sheet = Head(tabs)
          /\ pending = Tail(tabs)
    /\ run = "first"
    /\ pc = "open"
    /\ Locals0
    /\ done = <<>>
    /\ calls = <<>>
    /\ Retry0
    /\ Drive0

\* the remote call deduplicate_summary issues at a position
CallAt(p) ==
    CASE p = "open" -> "spreadsheets.get"
      [] p = "read" -> "get_sheet_values"
      [] p = "clear" -> "clear_sheet"
      [] p = "write" -> "values.update"

\* the tab a call is for, 0 for a call on the whole spreadsheet
TabAt(p) == IF p = "open" THEN 0 ELSE Len(done) + 1

\* the list of tabs is fetched
GetSpreadsheet ==
    /\ pc = "open"
    /\ pc' = "read"
    /\ calls' = Append(calls, <<CallAt(pc), TabAt(pc), "ok">>)
    /\ UNCHANGED <<sheet, run, data, header, rows, count_index, title_index,
                   length_index, bpm_index, optional_indices, pos, identity_to_entries,
                   merged_into, final_data, pending, done>>
    /\ UNCHANGED <<retry_vars, drive_vars>>

\* _with_retry raises out of a remote call, which has changed nothing, and
\* the error leaves deduplicate_summary
RemoteCallFails ==
    /\ pc \in {"open", "read", "clear", "write"}
    /\ pc' = "failed"
    /\ calls' = Append(calls, <<CallAt(pc), TabAt(pc), "raised">>)
    /\ UNCHANGED <<sheet, run, data, header, rows, count_index, title_index,
                   length_index, bpm_index, optional_indices, pos, identity_to_entries,
                   merged_into, final_data, pending, done>>
    /\ UNCHANGED <<retry_vars, drive_vars>>

\* what the loop is through with: the tab as it was read and as it is left
Through == Append(done, [before |-> data, after |-> sheet, how |-> pc])

\* the for loop of line 111 moves to the next tab
NextSheet ==
    /\ pc \in {"skipped", "written"}
    /\ pending # <<>>
    /\ done' = Through
    /\ sheet' = Head(pending)
    /\ pending' = Tail(pending)
    /\ pc' = "read"
    /\ data' = <<>>
    /\ header' = <<>>
    /\ rows' = <<>>
    /\ count_index' = 0
    /\ title_index' = 0
    /\ length_index' = 0
    /\ bpm_index' = 0
    /\ optional_indices' = <<>>
    /\ pos' = 0
    /\ identity_to_entries' = <<>>
    /\ merged_into' = <<>>
    /\ final_data' = <<>>
    /\ UNCHANGED <<run, calls>>
    /\ UNCHANGED <<retry_vars, drive_vars>>

\* after the last tab: best-effort formatting, whose failure is swallowed
ApplyFormatting ==
    /\ pc \in {"skipped", "written"}
    /\ pending = <<>>
    /\ done' = Through
    /\ calls' = Append(calls, <<"apply_formatting_to_sheet", 0, "ok">>)
    /\ pc' = "finished"
    /\ UNCHANGED <<sheet, run, data, header, rows, count_index, title_index,
                   length_index, bpm_index, optional_indices, pos, identity_to_entries,
                   merged_into, final_data, pending>>
    /\ UNCHANGED <<retry_vars, drive_vars>>

NextLoop ==
    \/ GetSpreadsheet
    \/ GetSheetValues /\ Remote("get_sheet_values")
    \/ SkipSheet /\ Locally
    \/ Prepare /\ Locally
    \/ ScanRow /\ Locally
    \/ EmitRows /\ Locally
    \/ ClearSheet /\ Remote("clear_sheet")
    \/ UpdateValues /\ Remote("values.update")
    \/ RemoteCallFails
    \/ NextSheet
    \/ ApplyFormatting

SpecLoop == InitLoop /\ [][NextLoop]_vars

\* ------------------------------------------------------------------------
\* _with_retry
\* ------------------------------------------------------------------------

\* Durations are whole numbers of 10^-FracDigits seconds.
Seconds(n) == n * Pow10(FracDigits)

MaxAttempts == 4

Min2(a, b) == IF a <= b THEN a ELSE b

Max2(a, b) == IF a >= b THEN a ELSE b

RECURSIVE Pow2(_)
Pow2(k) == IF k = 0 THEN 1 ELSE 2 * Pow2(k - 1)

\* base_delay_s and max_delay_s: the defaults 1.5 and 90.0, and a cap of 4.0
\* that the third delay reaches
DelayParams == {
    <<15 * Pow10(FracDigits - 1), Seconds(90)>>,
    <<15 * Pow10(FracDigits - 1), Seconds(4)>>
}

\* the HTTP statuses that are retried
RetryableStatuses == {408, 429, 500, 502, 503, 504}

\* the statuses fn fails with here; 0 stands for a response whose status
\* cannot be read (no resp, or no status on it)
Statuses == {429, 503, 404, 0}

\* the Retry-After headers here: none, an empty one, delta-seconds, and an
\* HTTP-date (which float() rejects)
Hints == {
    None,
    <<>>,
    <<"2">>,
    <<"1", "2", "0">>,
    <<"F", "r", "i", ",", " ", "0", "1">>
}

\* what fn returns here
Values == {None, <<"v">>}

\* the errors an invocation may raise; `at` is the number of the invocation
ErrorsAt(n) ==
    {[type |-> "HttpError", status |-> st, hint |-> h, at |-> n] :
        st \in Statuses, h \in Hints}
    \cup {[type |-> "Exception", status |-> 0, hint |-> None, at |-> n]}

IsRetryableAlways(e) == TRUE

_is_retryable_http_error(e) == e.status \in RetryableStatuses

\* float(ra) of the header, None when there is none, when it is empty or when
\* float() raises (the headers here are never spelled nan or inf)
_get_retry_after_seconds(e) ==
    IF e.hint = None \/ e.hint = <<>> THEN NoSeconds
    ELSE LET f == ParseFloat(e.hint)
         IN  IF f.kind = "num" THEN [some |-> TRUE, units |-> f.units] ELSE NoSeconds

UncappedDelay(n) == base_delay_s * Pow2(n - 1)

\* min(max_delay_s, base_delay_s * (2 ** (attempt - 1)))
CappedDelay(n) == Min2(max_delay_s, base_delay_s * Pow2(n - 1))

HttpBackoffIgnoresHint(n, ra) == CappedDelay(n)

\* the delay before jitter after an HttpError: the capped delay, raised to
\* Retry-After when the server gave one
HttpBackoff(n, ra) ==
    IF ra.some THEN Max2(CappedDelay(n), ra.units) ELSE CappedDelay(n)

\* random.uniform(0, bound): the ends and the middle of the interval
Uniform(bound) == {0, bound \div 2, bound}

\* the jitter after an HttpError: uniform(0, min(1.0, backoff / 3))
HttpJitter(b) == Uniform(Min2(Seconds(1), b \div 3))

\* the jitter after any other exception: uniform(0, 1.0)
OtherJitter(b) == Uniform(Seconds(1))

InitRetry ==
    /\ sheet = <<>>
    /\ run = "first"
    /\ pc = "read"
    /\ Locals0
    /\ Loop0
    /\ max_attempts \in 0..MaxAttempts
    /\ \E d \in DelayParams : base_delay_s = d[1] /\ max_delay_s = d[2]
    /\ retry_pc = "loop"
    /\ attempt = 1
    /\ RetryLocals0
    /\ Drive0

ReturnsNothing(v) ==
    /\ fn_value' = v
    /\ outcome' = [kind |-> "returned", value |-> None, error |-> NoError]
    /\ retry_pc' = "returned"
    /\ UNCHANGED <<last_err, retry_after, backoff, sleep_s, failures>>

\* fn() returns: _with_retry returns its value
Returns(v) ==
    /\ fn_value' = v
    /\ outcome' = [kind |-> "returned", value |-> v, error |-> NoError]
    /\ retry_pc' = "returned"
    /\ UNCHANGED <<last_err, retry_after, backoff, sleep_s, failures>>

\* fn() raises e and the handler raises it again
Reraises(e) ==
    /\ last_err' = e
    /\ failures' = failures + 1
    /\ outcome' = [kind |-> "raised", value |-> None, error |-> e]
    /\ retry_pc' = "raised"
    /\ UNCHANGED <<retry_after, backoff, sleep_s, fn_value>>

\* fn() raises e and the handler computes the delay to sleep
Backs(e) ==
    /\ last_err' = e
    /\ failures' = failures + 1
    /\ IF e.type = "HttpError"
       THEN LET ra == _get_retry_after_seconds(e)
                b == HttpBackoff(attempt, ra)
            IN  /\ retry_after' = ra
                /\ backoff' = b
                /\ \E jitter \in HttpJitter(b) : sleep_s' = b + jitter
       ELSE LET b == CappedDelay(attempt)
            IN  /\ retry_after' = NoSeconds
                /\ backoff' = b
                /\ \E jitter \in OtherJitter(b) : sleep_s' = b + jitter
    /\ retry_pc' = "retrying"
    /\ UNCHANGED <<outcome, fn_value>>

GivesUpOnStatusOnly(e) == e.type = "HttpError" /\ ~_is_retryable_http_error(e)

\* the handlers give up on an HttpError that is not retryable and on the
\* last attempt
GivesUp(e) ==
    \/ e.type = "HttpError" /\ ~_is_retryable_http_error(e)
    \/ attempt = max_attempts

\* one iteration of the loop up to time.sleep: fn is called, and returns or
\* raises
Invoke ==
    /\ retry_pc = "loop"
    /\ attempt <= max_attempts
    /\ invocations' = invocations + 1
    /\ \/ \E v \in Values : Returns(v)
       \/ \E e \in ErrorsAt(invocations + 1) :
             IF GivesUp(e) THEN Reraises(e) ELSE Backs(e)
    /\ UNCHANGED <<max_attempts, base_delay_s, max_delay_s, attempt, sleeps>>
    /\ UNCHANGED <<dedup_vars, loop_vars, drive_vars>>

\* time.sleep(sleep_s), then the next iteration
Sleep ==
    /\ retry_pc = "retrying"
    /\ sleeps' = sleeps + 1
    /\ attempt' = attempt + 1
    /\ retry_pc' = "loop"
    /\ UNCHANGED <<max_attempts, base_delay_s, max_delay_s, last_err, retry_after,
                   backoff, sleep_s, outcome, fn_value, invocations, failures>>
    /\ UNCHANGED <<dedup_vars, loop_vars, drive_vars>>

\* the loop is over without a return or a raise: last_err is raised if there
\* is one, else the function ends and returns None
FallThrough ==
    /\ retry_pc = "loop"
    /\ attempt > max_attempts
    /\ IF last_err # NoError
       THEN /\ outcome' = [kind |-> "raised", value |-> None, error |-> last_err]
            /\ retry_pc' = "raised"
       ELSE /\ outcome' = [kind |-> "returned", value |-> None, error |-> NoError]
            /\ retry_pc' = "returned"
    /\ UNCHANGED <<max_attempts, base_delay_s, max_delay_s, attempt, last_err,
                   retry_after, backoff, sleep_s, fn_value, invocations, failures,
                   sleeps>>
    /\ UNCHANGED <<dedup_vars, loop_vars, drive_vars>>

NextRetry ==
    \/ Invoke
    \/ Sleep
    \/ FallThrough

SpecRetry == InitRetry /\ [][NextRetry]_vars

\* _with_retry runs in one thread that nothing suspends: as long as it has a
\* step to take (fn returns or raises, time.sleep returns), it takes one
SpecRetryFair == SpecRetry /\ WF_vars(NextRetry)

\* ------------------------------------------------------------------------
\* Notions the properties are stated with
\* ------------------------------------------------------------------------

RECURSIVE SeqSum(_)
SeqSum(s) == IF s = <<>> THEN 0 ELSE Head(s) + SeqSum(Tail(s))

\* the scan has started (it may be under way, over, or have raised)
Scanning == pc \in {"scan", "raised", "clear"}

\* the members of a set of numbers, ascending
RECURSIVE SetToSeq(_)
SetToSeq(S) ==
    IF S = {} THEN <<>>
    ELSE LET x == CHOOSE y \in S : \A z \in S : y <= z IN <<x>> \o SetToSeq(S \ {x})

\* the entries there are, as <<group, entry>> positions
Locations ==
    UNION {{<<g, e>> : e \in DOMAIN identity_to_entries[g].entries} :
             g \in DOMAIN identity_to_entries}

EntryAt(loc) == identity_to_entries[loc[1]].entries[loc[2]]

\* the scanned rows that went into the entry at loc
Sources(loc) == {i \in DOMAIN merged_into : merged_into[i] = loc}

\* the row of final_data that holds the template of the entry at loc
OutIndex(loc) ==
    1 + SeqSum([k \in 1..(loc[1] - 1) |-> Len(identity_to_entries[k].entries)]) + loc[2]

\* Count cell read back as the scan reads it: 0 when it is not an integer
ParsedCount(row) ==
    LET p == ParseInt(row[count_index]) IN IF p.ok THEN p.val ELSE 0

EqualExceptCount(r1, r2) ==
    Len(r1) = Len(r2) /\ \A c \in DOMAIN r1 : c = count_index \/ r1[c] = r2[c]

\* a Length text read as a clock time, independently of _normalize_length:
\* two or three runs of digits between colons, minutes and seconds below 60
ClockParts(cell) == Split(cell, ":")

IsClock(cell) ==
    LET ps == ClockParts(cell)
        n == Len(ps)
    IN  /\ n \in {2, 3}
        /\ \A k \in DOMAIN ps : AllDigits(ps[k])
        /\ DigitsVal(ps[n]) < 60
        /\ DigitsVal(ps[n - 1]) < 60

\* <<hours, minutes, seconds>>
ClockOf(cell) ==
    LET ps == ClockParts(cell)
        n == Len(ps)
    IN  <<IF n = 3 THEN DigitsVal(ps[1]) ELSE 0, DigitsVal(ps[n - 1]), DigitsVal(ps[n])>>

\* two rows of one identity key whose Length cells spell the same clock time
\* and whose BPM cells spell the same number, the other optional cells equal
SameTrack(r1, r2) ==
    /\ length_index # 0
    /\ bpm_index # 0
    /\ IdentityKey(r1) = IdentityKey(r2)
    /\ IsClock(r1[length_index]) /\ IsClock(r2[length_index])
    /\ ClockOf(r1[length_index]) = ClockOf(r2[length_index])
    /\ ParseFloat(r1[bpm_index]).kind = "num" /\ ParseFloat(r2[bpm_index]).kind = "num"
    /\ ParseFloat(r1[bpm_index]).units = ParseFloat(r2[bpm_index]).units
    /\ \A c \in Range(optional_indices) \ {length_index, bpm_index} : r1[c] = r2[c]

\* the two rows differ in the optional column c only, where r1 is empty and r2 is not
EqualButEmptyAt(r1, r2, c) ==
    /\ Len(r1) = Len(r2)
    /\ r1[c] = <<>>
    /\ _normalize_key_cell(r2[c]) # <<>>
    /\ \A k \in DOMAIN r1 : k = c \/ r1[k] = r2[k]

\* ------------------------------------------------------------------------
\* Properties
\* ------------------------------------------------------------------------

\* C1: deduplication is idempotent.  When deduplicate_summary runs again on
\* the table its first run wrote, the table it is about to write has the same
\* header and the same data rows, cell by cell, Count included.
Idempotent == (run = "rerun" /\ pc = "clear") => final_data = data

\* a rerun over an output in which rows had been merged and back-filled
IdempotentWitness ==
    /\ run = "rerun"
    /\ pc = "clear"
    /\ Len(final_data) >= 3
    /\ \E i \in DOMAIN rows : ParsedCount(rows[i]) >= 3

\* C2: count conservation.  After every prefix of the scan the counts of all
\* entries add up to the parsed Count cells of the rows scanned so far (a
\* cell that is no integer counts 0), and each template row's Count cell is
\* the decimal text of its entry's count.
CountConservation ==
    Scanning =>
        /\ SeqSum([g \in DOMAIN identity_to_entries |->
                     SeqSum([e \in DOMAIN identity_to_entries[g].entries |->
                               identity_to_entries[g].entries[e].count])])
             = SeqSum([i \in DOMAIN merged_into |-> ParsedCount(rows[i])])
        /\ \A loc \in Locations : EntryAt(loc).row[count_index] = IntToStr(EntryAt(loc).count)

\* a finished scan that merged rows, one of them with a Count that is no integer
CountConservationWitness ==
    /\ pc = "clear"
    /\ \E i \in DOMAIN rows : ~ParseInt(rows[i][count_index]).ok /\ rows[i][count_index] # <<>>
    /\ \E loc \in Locations : Cardinality(Sources(loc)) >= 2 /\ EntryAt(loc).count >= 3

\* C3: when the header has no Count column, every data row, whatever its
\* original length, has "1" in the Count column when the scan starts, so each
\* entry's count is the number of rows merged into it.
CountDefaultsToOne ==
    (run = "first" /\ Scanning /\ _find_column_index_ci(data[1], CountName) = 0) =>
        /\ \A i \in DOMAIN rows : rows[i][count_index] = <<"1">>
        /\ \A loc \in Locations : EntryAt(loc).count = Cardinality(Sources(loc))

\* C4 as stated: the Count cell of every output row parses as an integer that
\* is at least the number of source rows merged into that row.
CountAtLeastSources ==
    pc = "clear" =>
        \A loc \in Locations :
            LET p == ParseInt(final_data[OutIndex(loc)][count_index])
            IN  p.ok /\ p.val >= Cardinality(Sources(loc))

\* C4, amended: the Count cell of every output row parses as an integer, the
\* sum of the parsed Count cells (a cell that is no integer counts 0) of the
\* source rows merged into that row as they entered the scan; it is at least
\* the number of those rows when each of their Count cells is an integer >= 1.
CountIsSumOfSources ==
    pc = "clear" =>
        \A loc \in Locations :
            LET p == ParseInt(final_data[OutIndex(loc)][count_index])
                src == SetToSeq(Sources(loc))
            IN  /\ p.ok
                /\ p.val = SeqSum([k \in DOMAIN src |-> ParsedCount(rows[src[k]])])
                /\ (\A i \in Sources(loc) : ParsedCount(rows[i]) >= 1)
                      => p.val >= Cardinality(Sources(loc))

\* an output row that stands for two rows, one of them with a Count that is
\* no integer, and whose Count is below the number of rows it stands for
CountIsSumOfSourcesWitness ==
    /\ pc = "clear"
    /\ \E loc \in Locations :
          /\ Cardinality(Sources(loc)) = 2
          /\ \E i \in Sources(loc) : ~ParseInt(rows[i][count_index]).ok
          /\ ParsedCount(final_data[OutIndex(loc)]) = 1

\* C5: non-adjacent dedup.  Two rows whose stripped cells agree in every
\* column but Count go into the same entry, whatever rows are scanned
\* between them.
SameRowsSameEntry ==
    Scanning =>
        \A i, j \in DOMAIN merged_into :
            (i < j /\ EqualExceptCount(rows[i], rows[j])) => merged_into[i] = merged_into[j]

\* two rows that agree except in Count, with a row between them that went to
\* another entry of the same identity key
SameRowsSameEntryWitness ==
    /\ pc = "clear"
    /\ \E i \in DOMAIN merged_into :
          /\ i + 2 \in DOMAIN merged_into
          /\ EqualExceptCount(rows[i], rows[i + 2])
          /\ rows[i][count_index] # rows[i + 2][count_index]
          /\ merged_into[i + 1][1] = merged_into[i][1]
          /\ merged_into[i + 1][2] > merged_into[i][2]
          /\ merged_into[i + 2] = merged_into[i]

\* C6: two rows of one identity key whose optional profiles are incompatible
\* are never counted into the same entry; both are in the output, as distinct
\* rows.
IncompatibleRowsStayApart ==
    Scanning =>
        \A i, j \in DOMAIN merged_into :
            (/\ i < j
             /\ IdentityKey(rows[i]) = IdentityKey(rows[j])
             /\ ~Compatible(OptNorm(rows[i]), OptNorm(rows[j])))
            => /\ merged_into[i] # merged_into[j]
               /\ pc = "clear" =>
                     /\ OutIndex(merged_into[i]) \in 2..Len(final_data)
                     /\ OutIndex(merged_into[j]) \in 2..Len(final_data)
                     /\ OutIndex(merged_into[i]) # OutIndex(merged_into[j])

\* a Rock row and a Jazz row of one key, with a row without Genre first
IncompatibleRowsStayApartWitness ==
    /\ pc = "clear"
    /\ Len(rows) = 3
    /\ optional_indices # <<>>
    /\ rows[1][optional_indices[1]] = <<>>
    /\ IdentityKey(rows[2]) = IdentityKey(rows[3])
    /\ IdentityKey(rows[1]) = IdentityKey(rows[2])
    /\ ~Compatible(OptNorm(rows[2]), OptNorm(rows[3]))
    /\ merged_into[1] = merged_into[2]
    /\ Len(final_data) = 3

\* C7, the merge step: when a row is merged into an entry whose normalized
\* value for an optional column is empty while the row's is not, the template
\* cell of that column becomes the row's stored text (the cell as read,
\* stripped, not key-normalized) and the profile takes the row's normalized
\* value.
BackfillStep ==
    (pc = "scan" /\ Len(merged_into') = Len(merged_into) + 1 /\ merged_into'[pos] \in Locations) =>
        LET row == rows[pos]
            loc == merged_into'[pos]
            raw == data[pos + 1]
            old == EntryAt(loc)
            new == identity_to_entries'[loc[1]].entries[loc[2]]
        IN  \A i \in Range(optional_indices) :
                (old.opt_norm[i] = <<>> /\ _norm_optional(i, row[i]) # <<>>) =>
                    /\ new.row[i] = row[i]
                    /\ i <= Len(raw) => new.row[i] = _strip_cell_value(raw[i])
                    /\ new.opt_norm[i] = _norm_optional(i, row[i])

\* C7, the outcome: two rows that are equal except that an optional column is
\* empty in one of them give one output row that holds the other's text in
\* that column, in either order of arrival.
BackfillEitherOrder ==
    (pc = "clear" /\ Len(rows) = 2) =>
        \A c \in Range(optional_indices) :
            /\ EqualButEmptyAt(rows[1], rows[2], c) =>
                  Len(final_data) = 2 /\ final_data[2][c] = rows[2][c]
            /\ EqualButEmptyAt(rows[2], rows[1], c) =>
                  Len(final_data) = 2 /\ final_data[2][c] = rows[1][c]

\* C7: back-fill on merge, the step and its outcome in either arrival order.
BackfillOnMerge == [][BackfillStep]_vars /\ []BackfillEitherOrder

\* an entry that began without Genre and now holds the text of a later row,
\* which is not that row's normalized value
BackfillOnMergeWitness ==
    /\ Scanning
    /\ \E loc \in Locations : \E c \in Range(optional_indices) :
          LET first == CHOOSE i \in Sources(loc) : \A k \in Sources(loc) : i <= k
          IN  /\ rows[first][c] = <<>>
              /\ EntryAt(loc).row[c] # <<>>
              /\ EntryAt(loc).row[c] # EntryAt(loc).opt_norm[c]

EveryRowRepresented ==
    pc = "clear" =>
        /\ Len(merged_into) = Len(rows)
        /\ Len(final_data) = 1 + Cardinality(Range(merged_into))
        /\ \A i \in DOMAIN rows :
              LET loc == merged_into[i]
                  out == final_data[OutIndex(loc)]
                  src == SetToSeq(Sources(loc))
              IN  /\ loc \in Locations
                  /\ OutIndex(loc) \in 2..Len(final_data)
                  /\ IdentityKey(out) = IdentityKey(rows[i])
                  /\ \A c \in Range(optional_indices) :
                        _norm_optional(c, rows[i][c]) \in {<<>>, _norm_optional(c, out[c])}
                  /\ ParsedCount(out) = SeqSum([k \in DOMAIN src |-> ParsedCount(rows[src[k]])])

\* Scenario E: a row whose Count is the text n/a has been merged with
\* another row and is in the output
EveryRowRepresentedWitness ==
    /\ pc = "clear"
    /\ \E i \in DOMAIN rows :
          /\ rows[i][count_index] = <<"n", "/", "a">>
          /\ Cardinality(Sources(merged_into[i])) = 2
          /\ ParsedCount(final_data[OutIndex(merged_into[i])]) = 1
    /\ Len(final_data) = 3

\* C10: the scan never raises on malformed cell data.
ScanNeverRaises == pc # "raised"

\* ------------------------------------------------------------------------
\* The loop over the tabs
\* ------------------------------------------------------------------------

\* the remote calls issued for tab t so far
CallsFor(t) == {calls[i][1] : i \in {j \in DOMAIN calls : calls[j][2] = t}}

\* a tab whose read gave fewer than two rows has had no call but the read,
\* holds what it held, and is through as skipped
SkippedUntouched ==
    /\ pc = "skipped" =>
          /\ Len(data) < 2
          /\ sheet = data
          /\ CallsFor(Len(done) + 1) = {"get_sheet_values"}
    /\ \A t \in DOMAIN done :
          /\ Len(done[t].before) < 2 <=> done[t].how = "skipped"
          /\ done[t].how = "skipped" =>
                /\ done[t].after = done[t].before
                /\ CallsFor(t) = {"get_sheet_values"}

\* a read of fewer than two rows leads to the skip, and the skip leads to the
\* read of the next tab, or past the loop when there is none
SkipStep ==
    /\ (pc = "check" /\ Len(data) < 2) => pc' = "skipped"
    /\ pc = "skipped" =>
          IF pending # <<>>
          THEN pc' = "read" /\ sheet' = Head(pending) /\ pending' = Tail(pending)
          ELSE pc' = "finished"

\* C11: a sheet whose read returns nothing, an empty table, or only a header
\* row is skipped: no clear and no write is issued for it, it keeps what it
\* held, no error is raised, and the loop goes on with the next sheet.
SkipsShortSheets == []SkippedUntouched /\ [][SkipStep]_vars

\* a run through with two tabs: the first was skipped, the second rewritten
SkipsShortSheetsWitness ==
    /\ pc = "finished"
    /\ Len(done) = 2
    /\ done[1].how = "skipped"
    /\ done[2].how = "written"
    /\ "values.update" \in CallsFor(2)

\* ------------------------------------------------------------------------
\* _with_retry
\* ------------------------------------------------------------------------

\* _with_retry is over
RetryOver == retry_pc \in {"returned", "raised"}

\* C12: for every k with 0 <= k < max_attempts, when the operation has failed
\* k times with errors that are retried and then succeeds, it has been
\* invoked exactly k + 1 times, _with_retry has slept exactly k times, and it
\* returns the value the operation returned, unchanged.
SucceedsAfterFailures ==
    /\ (retry_pc = "returned" /\ invocations > 0) =>
          /\ failures < max_attempts
          /\ invocations = failures + 1
          /\ sleeps = failures
          /\ outcome.kind = "returned"
          /\ outcome.value = fn_value
    \* and fewer than max_attempts failures that are retried do not end it
    /\ retry_pc = "raised" =>
          \/ failures = max_attempts
          \/ last_err.type = "HttpError" /\ ~_is_retryable_http_error(last_err)

\* success at the last attempt there is, after two failures
SucceedsAfterFailuresWitness ==
    /\ retry_pc = "returned"
    /\ max_attempts = 3
    /\ failures = max_attempts - 1
    /\ sleeps = 2
    /\ outcome.value = <<"v">>

\* C13 as stated: the sleep between two attempts never exceeds max_delay_s,
\* whatever the failure, with or without Retry-After, jitter included.
SleepWithinMaxDelay == retry_pc = "retrying" => sleep_s <= max_delay_s

\* C13, amended: the exponential delay, before Retry-After and jitter, never
\* exceeds max_delay_s; the sleep itself never exceeds the larger of
\* max_delay_s and the Retry-After seconds by more than one second of jitter.
SleepWithinHintAndJitter ==
    retry_pc = "retrying" =>
        /\ CappedDelay(attempt) <= max_delay_s
        /\ sleep_s <= Seconds(1) +
              (IF retry_after.some THEN Max2(max_delay_s, retry_after.units)
               ELSE max_delay_s)

\* a sleep longer than max_delay_s without any Retry-After: the delay is at
\* the cap and the jitter comes on top
SleepWithinHintAndJitterWitness ==
    /\ retry_pc = "retrying"
    /\ ~retry_after.some
    /\ backoff = max_delay_s
    /\ sleep_s > max_delay_s

\* the operation is invoked at most max_attempts times and _with_retry sleeps
\* at most max_attempts - 1 times (never, when max_attempts is below 1)
WithinBudget ==
    /\ invocations <= Max2(max_attempts, 0)
    /\ sleeps <= Max2(max_attempts - 1, 0)
    /\ sleeps <= invocations

\* once _with_retry has returned or raised, nothing of it moves any more
OverIsFinal == RetryOver => UNCHANGED retry_vars

\* C14: attempt budget.  In any execution of _with_retry the operation is
\* invoked at most max_attempts times and the wait between attempts is entered
\* at most max_attempts - 1 times; once it has returned or raised the
\* operation is never invoked again; and, every invocation and every sleep
\* coming to an end, _with_retry comes to an end.
AttemptBudget == []WithinBudget /\ [][OverIsFinal]_vars /\ <>RetryOver

\* the whole budget is used: max_attempts invocations, one sleep less
AttemptBudgetWitness ==
    /\ retry_pc = "raised"
    /\ max_attempts = 4
    /\ invocations = max_attempts
    /\ sleeps = max_attempts - 1

\* C15: _with_retry never swallows a terminal failure.  For every value of
\* max_attempts it returns only if some invocation of the operation returned,
\* and what it returns is that value; otherwise it raises the error that the
\* most recent invocation raised.
NeverSwallows ==
    /\ retry_pc = "returned" =>
          /\ invocations > failures
          /\ outcome.value = fn_value
    /\ retry_pc = "raised" =>
          /\ outcome.kind = "raised"
          /\ outcome.error = last_err
          /\ last_err.at = invocations

\* an invocation has just raised
RaisedInStep == retry_pc = "loop" /\ failures' = failures + 1

\* what follows an invocation that raised, by the kind of its error
ClassifiedStep ==
    /\ RaisedInStep =>
          LET e == last_err'
          IN  IF e.type = "HttpError" /\ e.status \notin {408, 429, 500, 502, 503, 504}
              THEN /\ retry_pc' = "raised"
                   /\ outcome'.error = e
                   /\ sleeps' = sleeps
              ELSE IF attempt < max_attempts
              THEN retry_pc' = "retrying"
              ELSE retry_pc' = "raised" /\ outcome'.error = e
    \* and a retry is one sleep, after which the operation can be invoked
    /\ retry_pc = "retrying" =>
          /\ retry_pc' = "loop"
          /\ sleeps' = sleeps + 1
          /\ attempt' <= max_attempts

\* C16: error classification.  An HttpError whose status is not one of 408,
\* 429, 500, 502, 503, 504, or cannot be read, is raised at once, with no
\* sleep, whatever attempts remain; an HttpError with one of these statuses
\* and any other exception is retried as long as attempts remain.
ErrorClassification == [][ClassifiedStep]_vars

\* a 404 at the first of four attempts is raised after that one invocation
ErrorClassificationWitness ==
    /\ retry_pc = "raised"
    /\ max_attempts = 4
    /\ invocations = 1
    /\ sleeps = 0
    /\ outcome.error.type = "HttpError"
    /\ outcome.error.status = 404

\* C17: jitter bound.  On every retry, after an HttpError and after any other
\* exception alike, the sleep is the backoff plus a jitter that lies between
\* 0 and the lesser of one second and a third of the backoff.
JitterBound ==
    retry_pc = "retrying" =>
        LET jitter == sleep_s - backoff
        IN  /\ 0 <= jitter
            /\ jitter <= Seconds(1)
            /\ 3 * jitter <= backoff

\* the Retry-After header of the latest error read as a number of seconds
HintIsNumber == last_err.hint \notin {None, <<>>} /\ ParseFloat(last_err.hint).kind = "num"

HintUnits == ParseFloat(last_err.hint).units

\* C18: Retry-After override.  The delay min(max_delay_s, base_delay_s *
\* 2^(n-1)) does not decrease as the attempt number n grows; when the failure
\* carries a Retry-After larger than that delay, the sleep is at least the
\* seconds it names; a missing or unparsable Retry-After leaves the backoff at
\* that delay.
RetryAfterOverride ==
    /\ \A n \in 1..MaxAttempts : CappedDelay(n) <= CappedDelay(n + 1)
    /\ (retry_pc = "retrying" /\ last_err.type = "HttpError") =>
          IF HintIsNumber /\ HintUnits > CappedDelay(attempt)
          THEN sleep_s >= HintUnits
          ELSE backoff = CappedDelay(attempt) /\ sleep_s >= backoff

\* Retry-After: 120 against a delay capped at 90 seconds
RetryAfterOverrideWitness ==
    /\ retry_pc = "retrying"
    /\ last_err.hint = <<"1", "2", "0">>
    /\ max_delay_s = Seconds(90)
    /\ CappedDelay(attempt) < Seconds(120)
    /\ sleep_s >= Seconds(120)

\* ------------------------------------------------------------------------
\* Remote failures and row lengths
\* ------------------------------------------------------------------------

\* C19: when a terminal remote error leaves deduplicate_summary, no tab is
\* left partly written: the tab at hand holds all it held when it was read or
\* all of its deduplicated table, never the emptiness between clear and
\* write, and the tabs before it and after it are whole as well.
NoPartialWrite ==
    pc = "failed" =>
        /\ \/ data = <<>>
           \/ sheet = data
           \/ final_data # <<>> /\ sheet = Overwrite(data, final_data)
        /\ \A t \in DOMAIN done :
              \/ done[t].after = done[t].before
              \/ done[t].how = "written"

\* data row i as get_sheet_values returned it, with the "1" that Count
\* completion appended to it if the header had no Count column
RawRow(i) ==
    IF _find_column_index_ci(data[1], CountName) = 0
    THEN data[i + 1] \o <<<<"1">>>>
    ELSE data[i + 1]

\* C20: row-length invariant.  Every data row that enters the scan and every
\* data row of the emitted table has exactly len(header) cells, the header
\* taken after Count was appended to it: a short row is padded on the right
\* with empty strings and a long row is cut.
RowLengths ==
    /\ Scanning =>
          /\ Len(rows) = Len(data) - 1
          /\ \A i \in DOMAIN rows : Len(rows[i]) = Len(header)
          /\ \A loc \in Locations : Len(EntryAt(loc).row) = Len(header)
    \* the cells of the rows at the start of the scan
    /\ (pc = "scan" /\ pos = 1) =>
          \A i \in DOMAIN rows :
              LET raw == RawRow(i)
              IN  \A c \in 1..Len(header) :
                      rows[i][c] = IF c <= Len(raw) THEN _strip_cell_value(raw[c])
                                   ELSE <<>>
    /\ final_data # <<>> =>
          /\ final_data[1] = header
          /\ \A i \in DOMAIN final_data : Len(final_data[i]) = Len(header)

\* a table with a row shorter and a row longer than its header is emitted
RowLengthsWitness ==
    /\ pc = "clear"
    /\ \E i \in DOMAIN rows : Len(RawRow(i)) < Len(header)
    /\ \E i \in DOMAIN rows : Len(RawRow(i)) > Len(header)
    /\ Len(final_data) > 1

\* ------------------------------------------------------------------------
\* Order of the output, identity key, selection of the entry
\* ------------------------------------------------------------------------

\* the least member of a non-empty set of numbers
Least(S) == CHOOSE x \in S : \A y \in S : x <= y

\* the scanned row that created the entry at loc
FirstSource(loc) == Least(Sources(loc))

\* the scanned row in which the identity key of group g first occurred
FirstOfGroup(g) == Least({i \in DOMAIN merged_into : merged_into[i][1] = g})

\* loc a comes before loc b in the dict and its lists
Before(a, b) == a[1] < b[1] \/ (a[1] = b[1] /\ a[2] < b[2])

\* the groups of all rows scanned from row k on, starting from `groups`; the
\* scan as one function of the rows in their order
RECURSIVE ScanFrom(_, _)
ScanFrom(groups, k) ==
    IF k > Len(rows) THEN groups
    ELSE LET row == rows[k]
             key == IdentityKey(row)
             g0 == GroupOf(groups, key)
             with == IF g0 = 0 THEN Append(groups, [key |-> key, entries |-> <<>>])
                     ELSE groups
             g == IF g0 = 0 THEN Len(with) ELSE g0
         IN  ScanFrom([with EXCEPT ![g].entries =
                          UpdateEntries(@, row, RowCount(row), OptNorm(row))], k + 1)

\* C21: output grouping order.  The emitted data rows list the identity keys
\* in the order in which each key first occurs in the input, and within one
\* key the entries in the order they were created; the output is a function
\* of the input rows in their order.
GroupingOrder ==
    /\ Scanning =>
          /\ \A g \in DOMAIN identity_to_entries :
                /\ identity_to_entries[g].key = IdentityKey(rows[FirstOfGroup(g)])
                /\ \A h \in DOMAIN identity_to_entries :
                      g < h => /\ FirstOfGroup(g) < FirstOfGroup(h)
                               /\ identity_to_entries[g].key # identity_to_entries[h].key
          /\ \A a, b \in Locations :
                (a[1] = b[1] /\ a[2] < b[2]) => FirstSource(a) < FirstSource(b)
    /\ pc = "clear" =>
          /\ Len(final_data) = 1 + Cardinality(Locations)
          /\ \A a \in Locations : final_data[OutIndex(a)] = EntryAt(a).row
          /\ \A a, b \in Locations : Before(a, b) => OutIndex(a) < OutIndex(b)
          /\ final_data = <<header>> \o DedupedRows(ScanFrom(<<>>, 1))

\* two keys, the first of them with two entries, and the key that occurred
\* first was completed by a row that came after the second key
GroupingOrderWitness ==
    /\ pc = "clear"
    /\ Len(identity_to_entries) = 2
    /\ Len(identity_to_entries[1].entries) = 2
    /\ FirstOfGroup(2) < FirstSource(<<1, 2>>)

\* the emitted table holds the template of every entry at its place
EmittedInPlace ==
    /\ Len(final_data) = 1 + Cardinality(Locations)
    /\ \A a \in Locations : final_data[OutIndex(a)] = EntryAt(a).row

\* C22 as stated: the emitted data rows appear in the order in which their
\* entries were created during the scan: an entry created earlier is always
\* emitted before an entry created later.
CreationOrder ==
    pc = "clear" =>
        /\ EmittedInPlace
        /\ \A a, b \in Locations :
              FirstSource(a) < FirstSource(b) => OutIndex(a) < OutIndex(b)

\* C22, amended: an entry created earlier is emitted before an entry created
\* later unless the later entry belongs to an identity key that first
\* occurred earlier; then the later entry is emitted first, with its key.
CreationOrderByKey ==
    pc = "clear" =>
        /\ EmittedInPlace
        /\ \A a, b \in Locations :
              FirstSource(a) < FirstSource(b) =>
                  IF FirstOfGroup(b[1]) < FirstOfGroup(a[1])
                  THEN OutIndex(b) < OutIndex(a)
                  ELSE OutIndex(a) < OutIndex(b)

\* an entry created third is emitted second, before the entry created second
CreationOrderByKeyWitness ==
    /\ pc = "clear"
    /\ \E a, b \in Locations :
          /\ FirstSource(a) = 2
          /\ FirstSource(b) = 3
          /\ OutIndex(b) = 3
          /\ OutIndex(a) = 4

\* the columns that make the identity key: all but Count and the optional
\* columns that are present, in column order
KeyColumns ==
    SelectSeq([c \in 1..Len(header) |-> c],
              LAMBDA c : c # count_index /\ c \notin Range(optional_indices))

\* the fragment a cell gives to the key, as the claim words it
Fragment(c, cell) ==
    LET norm == _normalize_key_cell(cell)
    IN  LowerStr(IF c = title_index THEN SelectSeq(norm, IsAlnum) ELSE norm)

\* a text without its case and without everything that is not a letter or digit
Skeleton(cell) == LowerStr(SelectSeq(IF cell = None THEN <<>> ELSE cell, IsAlnum))

\* the two rows differ in nothing but the case, whitespace and punctuation of
\* their Titles, as far as the key columns go
TitlesAlike(r1, r2) ==
    /\ title_index # 0
    /\ r1[title_index] # r2[title_index]
    /\ Skeleton(r1[title_index]) = Skeleton(r2[title_index])
    /\ \A k \in DOMAIN KeyColumns :
          KeyColumns[k] = title_index \/ r1[KeyColumns[k]] = r2[KeyColumns[k]]

\* the identity key under which scanned row i was filed
KeyOf(i) == identity_to_entries[merged_into[i][1]].key

\* C23: identity key construction.  The key of a row is the ordered tuple of
\* the lower-cased normalized cells of every column except Count and the
\* optional columns that are present, the Title fragment stripped of every
\* character that is not alphanumeric; rows that differ only in Count, or
\* whose Titles differ only in case, whitespace or punctuation, have equal
\* keys; rows whose fragments differ in some key column never share an entry.
IdentityKeyConstruction ==
    Scanning =>
        /\ \A i \in DOMAIN merged_into :
              /\ Len(KeyOf(i)) = Len(KeyColumns)
              /\ \A k \in DOMAIN KeyColumns :
                    KeyOf(i)[k] = Fragment(KeyColumns[k], rows[i][KeyColumns[k]])
        /\ \A i, j \in DOMAIN merged_into :
              /\ EqualExceptCount(rows[i], rows[j]) => KeyOf(i) = KeyOf(j)
              /\ TitlesAlike(rows[i], rows[j]) => KeyOf(i) = KeyOf(j)
              /\ (\E k \in DOMAIN KeyColumns :
                      Fragment(KeyColumns[k], rows[i][KeyColumns[k]])
                          # Fragment(KeyColumns[k], rows[j][KeyColumns[k]]))
                    => merged_into[i] # merged_into[j]

\* a table with a row, the same Title in another spelling, and the same
\* Artist with punctuation: the first two are one entry, the third is apart
IdentityKeyConstructionWitness ==
    /\ pc = "clear"
    /\ Len(KeyColumns) = 2
    /\ \E i, j, k \in DOMAIN merged_into :
          /\ TitlesAlike(rows[i], rows[j])
          /\ merged_into[i] = merged_into[j]
          /\ rows[k][title_index] = rows[i][title_index]
          /\ merged_into[k][1] # merged_into[i][1]

\* ------------------------------------------------------------------------
\* _normalize_length on empty parts
\* ------------------------------------------------------------------------

\* the parts of a Length text between its colons, empty ones included
AllParts(s) == LET ps == Split(s, ":") IN [i \in DOMAIN ps |-> Strip(ps[i])]

\* a part read as a number, an empty part being 0
PartValue(p) == IF p = <<>> THEN 0 ELSE ParseInt(p).val

\* the canonical spelling of a time
Canonical(h, m, sec) ==
    IF h = 0 THEN IntToStr(m) \o <<":">> \o Pad2(sec)
    ELSE IntToStr(h) \o <<":">> \o Pad2(m) \o <<":">> \o Pad2(sec)

\* the text is rejected: its part count is not 2 or 3, a part is no integer
\* or negative, or minutes or seconds are 60 or more
Rejected(s) ==
    LET ps == AllParts(s)
        n == Len(ps)
    IN  \/ n \notin {2, 3}
        \/ \E i \in DOMAIN ps : ps[i] # <<>> /\ ~ParseInt(ps[i]).ok
        \/ \E i \in DOMAIN ps : PartValue(ps[i]) < 0
        \/ PartValue(ps[n]) >= 60
        \/ PartValue(ps[n - 1]) >= 60

\* the one scanned row's Length text as it reaches _normalize_length, and
\* what _normalize_length made of it
LengthIn == _normalize_key_cell(rows[1][length_index])

LengthOut == EntryAt(<<1, 1>>).opt_norm[length_index]

\* C24: _normalize_length treats an empty colon-separated part as 0.  A text
\* of two or three parts of which some are empty becomes the canonical form
\* of the time with 0 for each empty part, the other parts staying in their
\* places; a text whose part count is not 2 or 3, or with a negative part, or
\* with seconds or minutes of 60 or more, comes back unchanged.
EmptyPartIsZero ==
    (pc = "clear" /\ Len(rows) = 1 /\ LengthIn # <<>>) =>
        LET ps == AllParts(LengthIn)
            n == Len(ps)
        IN  /\ Rejected(LengthIn) => LengthOut = LengthIn
            /\ (~Rejected(LengthIn) /\ \E i \in DOMAIN ps : ps[i] = <<>>) =>
                  LengthOut = Canonical(IF n = 3 THEN PartValue(ps[1]) ELSE 0,
                                        PartValue(ps[n - 1]), PartValue(ps[n]))

\* the entries filed under a key, <<>> when the key is not in the dict
EntriesUnder(groups, key) ==
    IF GroupOf(groups, key) = 0 THEN <<>> ELSE groups[GroupOf(groups, key)].entries

\* one row is scanned: it goes to the first entry of its key, in list order,
\* whose profile does not contradict its own, and a new entry is appended
\* exactly when there is none
FirstCompatibleStep ==
    (pc = "scan" /\ pos <= Len(rows) /\ pc' = "scan") =>
        LET row == rows[pos]
            key == IdentityKey(row)
            mine == OptNorm(row)
            old == EntriesUnder(identity_to_entries, key)
            new == EntriesUnder(identity_to_entries', key)
            agree == {e \in DOMAIN old :
                         \A i \in Range(optional_indices) :
                             \/ old[e].opt_norm[i] = <<>>
                             \/ mine[i] = <<>>
                             \/ old[e].opt_norm[i] = mine[i]}
        IN  IF agree # {}
            THEN /\ Len(new) = Len(old)
                 /\ merged_into'[pos][2] = Least(agree)
                 /\ new[Least(agree)].count = old[Least(agree)].count + RowCount(row)
                 /\ \A e \in DOMAIN old : e # Least(agree) => new[e] = old[e]
            ELSE /\ Len(new) = Len(old) + 1
                 /\ merged_into'[pos][2] = Len(new)
                 /\ new[Len(new)].opt_norm = mine
                 /\ new[Len(new)].count = RowCount(row)
                 /\ \A e \in DOMAIN old : new[e] = old[e]

\* C25: first-compatible selection.  Each incoming row is merged into the
\* first entry, in insertion order, of its identity key's list whose profile
\* is compatible with the row's (for every optional column one side empty or
\* both equal), and a new entry is appended to that list if and only if no
\* entry under that key is compatible.
FirstCompatible == [][FirstCompatibleStep]_vars

\* a row that two entries of its key would take has gone to the first
FirstCompatibleWitness ==
    /\ Scanning
    /\ \E i \in DOMAIN merged_into :
          /\ merged_into[i][2] = 1
          /\ Len(identity_to_entries[merged_into[i][1]].entries) >= 2
          /\ FirstSource(<<merged_into[i][1], 2>>) < i
          /\ \A c \in Range(optional_indices) : OptNorm(rows[i])[c] = <<>>

\* ------------------------------------------------------------------------
\* Order of the remote calls
\* ------------------------------------------------------------------------

\* the names of the calls issued for tab t, in the order they were issued
CallSeqFor(t) ==
    LET mine == SelectSeq(calls, LAMBDA c : c[2] = t)
    IN  [k \in DOMAIN mine |-> mine[k][1]]

\* C26: per-sheet call ordering.  For every sheet that is not skipped the
\* remote calls are read, clear, write, in this order; the write is issued
\* only after the clear has succeeded, a sheet's clear only after the write of
\* the sheet before it has succeeded, and after its write the sheet holds
\* exactly the header and the deduplicated rows, with no row left over from
\* its longer prior content.
CallOrdering ==
    LET order == <<"get_sheet_values", "clear_sheet", "values.update">>
    IN  /\ \A t \in 1..(Len(done) + 1) :
              /\ Len(CallSeqFor(t)) <= 3
              /\ CallSeqFor(t) = SubSeq(order, 1, Len(CallSeqFor(t)))
        \* the calls of one sheet are over before those of the next begin, and
        \* a call that is not the last one issued has succeeded
        /\ \A k \in DOMAIN calls : \A j \in 1..(k - 1) :
              /\ calls[j][3] = "ok"
              /\ calls[k][2] # 0 => calls[j][2] <= calls[k][2]
        /\ \A k \in DOMAIN calls :
              /\ calls[k][1] = "values.update" =>
                    calls[k - 1] = <<"clear_sheet", calls[k][2], "ok">>
              /\ (calls[k][1] = "clear_sheet" /\ calls[k][2] > 1
                     /\ done[calls[k][2] - 1].how = "written") =>
                    \E j \in 1..(k - 1) :
                        calls[j] = <<"values.update", calls[k][2] - 1, "ok">>
        /\ \A t \in DOMAIN done :
              /\ done[t].how = "written" => CallSeqFor(t) = order
              /\ done[t].how = "skipped" => CallSeqFor(t) = <<"get_sheet_values">>
        /\ pc = "failed" => \A t \in DOMAIN done : done[t].how \in {"written", "skipped"}
        /\ pc = "written" =>
              /\ CallSeqFor(Len(done) + 1) = order
              /\ sheet = final_data
              /\ final_data = <<header>> \o DedupedRows(identity_to_entries)

\* the second of two sheets is written, shorter than it was, after the first
CallOrderingWitness ==
    /\ pc = "written"
    /\ Len(done) = 1
    /\ done[1].how = "written"
    /\ Len(sheet) < Len(data)
    /\ Len(calls) = 7
    /\ calls[4] = <<"values.update", 1, "ok">>
    /\ calls[6] = <<"clear_sheet", 2, "ok">>

\* ------------------------------------------------------------------------
\* generate_next_missing_summary: one summary per invocation
\* ------------------------------------------------------------------------

\* str.startswith and the operator "in" on two texts
StartsWith(s, p) == Len(s) >= Len(p) /\ SubSeq(s, 1, Len(p)) = p

Contains(s, p) == \E i \in 0..(Len(s) - Len(p)) : SubSeq(s, i + 1, i + Len(p)) = p

FailedPrefix == <<"F", "A", "I", "L", "E", "D", "_">>
CleanedMark == <<"_", "C", "l", "e", "a", "n", "e", "d">>
SummaryLower == <<"s", "u", "m", "m", "a", "r", "y">>

\* the any(...) of line 114 over the spreadsheets of one year folder
UnreadyFailedOnly(files) == \E i \in DOMAIN files : StartsWith(files[i], FailedPrefix)

Unready(files) ==
    \E i \in DOMAIN files :
        StartsWith(files[i], FailedPrefix) \/ Contains(files[i], CleanedMark)

MaxFolders == 3

\* A listed folder is its name, whether the look-up of its "<year> Summary" in
\* the summary folder returned anything, and the names of its spreadsheets.
InitSummary ==
    /\ sheet = <<>>
    /\ run = "first"
    /\ pc = "read"
    /\ Locals0
    /\ Loop0
    /\ Retry0
    /\ LET a == <<"a">>
           year == <<"2", "0", "2", "3">>
           listings == {<<a>>, <<a, FailedPrefix \o a>>, <<a \o CleanedMark>>,
                        <<LowerStr(FailedPrefix) \o a>>}
           pool == {[name |-> year, has_summary |-> h, files |-> f] :
                       h \in BOOLEAN, f \in listings}
                   \cup {[name |-> <<"S">> \o Tail(SummaryLower),
                          has_summary |-> FALSE, files |-> <<a>>]}
       IN  year_folders \in UNION {[1..n -> pool] : n \in 0..MaxFolders}
    /\ folder_no = 1
    /\ processed_any = FALSE
    /\ examined = <<>>
    /\ generated = <<>>
    /\ version = "none"
    /\ names = <<>>
    /\ existing_names = {}
    /\ file_no = 0
    /\ renames = <<>>

\* One iteration of the loop of line 92; break leaves the loop, as does an
\* error raised by generate_summary_for_folder.
ExamineFolder ==
    /\ folder_no \in DOMAIN year_folders
    /\ LET folder == year_folders[folder_no]
           continue == folder_no' = folder_no + 1
           break == folder_no' = Len(year_folders) + 1
       IN  IF LowerStr(folder.name) = SummaryLower
           THEN /\ continue
                /\ UNCHANGED <<examined, generated, processed_any>>
           ELSE /\ examined' = Append(examined, folder_no)
                /\ IF folder.has_summary
                   THEN /\ IF processed_any THEN break ELSE continue
                        /\ UNCHANGED <<generated, processed_any>>
                   ELSE IF Unready(folder.files)
                   THEN /\ continue
                        /\ UNCHANGED <<generated, processed_any>>
                   ELSE /\ generated' = Append(generated, folder_no)
                        /\ \E returned \in BOOLEAN : processed_any' = returned
                        /\ break
    /\ UNCHANGED <<year_folders, version, names, existing_names, file_no, renames>>
    /\ UNCHANGED <<dedup_vars, loop_vars, retry_vars>>

SpecSummary == InitSummary /\ [][ExamineFolder]_vars

\* C27: generate_summary_for_folder is called at most once per invocation,
\* and only for the first listed folder that is not named "summary" (in any
\* letter case), whose "<year> Summary" look-up came back empty and none of
\* whose files starts with "FAILED_" or contains "_Cleaned"; no folder after
\* it is looked at, and once the loop is over such a folder, if there is one,
\* has had its call.
AtMostOneSummary ==
    LET eligible(j) ==
            /\ LowerStr(year_folders[j].name) # SummaryLower
            /\ ~year_folders[j].has_summary
            /\ \A i \in DOMAIN year_folders[j].files :
                   LET f == year_folders[j].files[i]
                   IN  /\ ~(Len(f) >= 7 /\ SubSeq(f, 1, 7) = FailedPrefix)
                       /\ \A k \in 1..Len(f) :
                              ~(k + 7 <= Len(f) /\ SubSeq(f, k, k + 7) = CleanedMark)
        first(j) == eligible(j) /\ \A i \in 1..(j - 1) : ~eligible(i)
    IN  /\ Len(generated) <= 1
        /\ \A k \in DOMAIN generated :
               /\ first(generated[k])
               /\ \A e \in DOMAIN examined : examined[e] <= generated[k]
               /\ folder_no = Len(year_folders) + 1
        /\ folder_no = Len(year_folders) + 1
               => \A j \in DOMAIN year_folders : first(j) => generated = <<j>>

\* a summary was generated for the third listed folder, after a folder named
\* Summary and a folder with an unfinished file were passed over
AtMostOneSummaryWitness ==
    /\ generated = <<3>>
    /\ Len(year_folders) = 3
    /\ LowerStr(year_folders[1].name) = SummaryLower
    /\ Unready(year_folders[2].files)
    /\ examined = <<2, 3>>

\* ------------------------------------------------------------------------
\* normalize_prefixes_in_source: stripping status prefixes from file names
\* ------------------------------------------------------------------------

\* FAILED_PREFIX, POSSIBLE_DUPLICATE_PREFIX and COPY_OF_PREFIX, in the order of
\* the if/elif chain
Prefixes ==
    <<FailedPrefix,
      <<"p", "o", "s", "s", "i", "b", "l", "e", "_",
        "d", "u", "p", "l", "i", "c", "a", "t", "e", "_">>,
      <<"C", "o", "p", "y", " ", "o", "f", " ">>>>

\* len(prefix) for the first prefix the lower-cased name starts with, 0 when
\* prefix stays None
PrefixLen(name) ==
    LET hit(k) == StartsWith(LowerStr(name), LowerStr(Prefixes[k]))
    IN  IF \E k \in DOMAIN Prefixes : hit(k)
        THEN Len(Prefixes[CHOOSE k \in DOMAIN Prefixes :
                              hit(k) /\ \A j \in 1..(k - 1) : ~hit(j)])
        ELSE 0

MaxFiles == 3

\* "facade" is the definition of process_new_files.py, "service" the one of
\* helpers.py; the files of the folder are numbered in listing order.
InitPrefixes ==
    /\ sheet = <<>>
    /\ run = "first"
    /\ pc = "read"
    /\ Locals0
    /\ Loop0
    /\ Retry0
    /\ year_folders = <<>>
    /\ folder_no = 0
    /\ processed_any = FALSE
    /\ examined = <<>>
    /\ generated = <<>>
    /\ version \in {"facade", "service"}
    /\ LET x == <<"x">>
           pool == {x, FailedPrefix \o x, LowerStr(FailedPrefix) \o x,
                    FailedPrefix \o FailedPrefix \o x, FailedPrefix,
                    Prefixes[3] \o x, Prefixes[2] \o Prefixes[3] \o x}
       IN  names \in UNION {[1..n -> pool] : n \in 0..MaxFiles}
    /\ existing_names = IF version = "facade"
                        THEN {names[i] : i \in DOMAIN names} \ {<<>>}
                        ELSE {}
    /\ file_no = 1
    /\ renames = <<>>

\* One iteration of the loop over the listed files. The look-up of the target
\* name is the local set in the facade definition and a query of the folder in
\* the service definition, where it may raise, which is logged and passed
\* over; the rename itself may raise in both, which is logged.
NormalizeFile ==
    /\ file_no \in DOMAIN names
    /\ file_no' = file_no + 1
    /\ LET original_name == names[file_no]
           n == PrefixLen(original_name)
           new_name == SubSeq(original_name, n + 1, Len(original_name))
           exists == IF version = "facade"
                     THEN new_name \in existing_names
                     ELSE \E j \in DOMAIN names : names[j] = new_name
       IN  IF n = 0 \/ new_name = <<>>
           THEN UNCHANGED <<names, existing_names, renames>>
           ELSE \E check_raises \in IF version = "service" THEN BOOLEAN ELSE {FALSE} :
                    IF ~check_raises /\ exists
                    THEN UNCHANGED <<names, existing_names, renames>>
                    ELSE \E renamed \in BOOLEAN :
                             IF renamed
                             THEN /\ names' = [names EXCEPT ![file_no] = new_name]
                                  /\ renames' = Append(renames,
                                         <<file_no, original_name, new_name>>)
                                  /\ existing_names' =
                                         IF version = "facade"
                                         THEN (existing_names \ {original_name})
                                                  \cup {new_name}
                                         ELSE existing_names
                             ELSE UNCHANGED <<names, existing_names, renames>>
    /\ UNCHANGED <<version, year_folders, folder_no, processed_any, examined, generated>>
    /\ UNCHANGED <<dedup_vars, loop_vars, retry_vars>>

SpecPrefixes == InitPrefixes /\ [][NormalizeFile]_vars

\* C28: a file is renamed only to its name without one leading prefix, never
\* to the empty name, and only when no other file of the folder holds that
\* name at that moment.
NoNameCollision ==
    [][\A i \in DOMAIN names :
           names'[i] # names[i] =>
               /\ names'[i] # <<>>
               /\ \E k \in DOMAIN Prefixes :
                      /\ Len(names[i]) = Len(Prefixes[k]) + Len(names'[i])
                      /\ LowerStr(names[i]) = LowerStr(Prefixes[k]) \o LowerStr(names'[i])
                      /\ names[i] = SubSeq(names[i], 1, Len(Prefixes[k])) \o names'[i]
               /\ \A j \in DOMAIN names : j # i => names[j] # names'[i]]_vars

\* C29: at every point of the scan any two entries kept under one identity key
\* contradict each other, that is, some optional column is non-empty in both
\* profiles with different values; and any two rows of the output that share
\* an identity key contradict each other likewise, so neither could have been
\* merged into the other.
PairwiseIncompatible ==
    LET clash(p, q) ==
            \E i \in Range(optional_indices) : p[i] # <<>> /\ q[i] # <<>> /\ p[i] # q[i]
    IN  Scanning =>
            /\ \A g \in DOMAIN identity_to_entries :
                   \A a, b \in DOMAIN identity_to_entries[g].entries :
                       a < b => clash(identity_to_entries[g].entries[a].opt_norm,
                                      identity_to_entries[g].entries[b].opt_norm)
            /\ pc = "clear" =>
                   \A a, b \in 2..Len(final_data) :
                       (a < b /\ IdentityKey(final_data[a]) = IdentityKey(final_data[b]))
                           => clash(OptNorm(final_data[a]), OptNorm(final_data[b]))

\* two entries of one key are kept, and the first of them has taken a row
\* after the second was made
PairwiseIncompatibleWitness ==
    /\ pc = "clear"
    /\ Len(rows) = 3
    /\ Len(final_data) = 3
    /\ Len(identity_to_entries) = 1
    /\ merged_into = <<<<1, 1>>, <<1, 2>>, <<1, 1>>>>
    /\ rows[3] # rows[1]

\* one row is scanned: of the entries there were, at most the one the row went
\* to differs afterwards, and it differs only in its count, its Count cell and
\* the optional cells and profile values whose profile value was empty; no
\* key and no entry goes away
MergeFrameStep ==
    (pc = "scan" /\ pos <= Len(rows) /\ pc' = "scan") =>
        /\ Len(identity_to_entries') >= Len(identity_to_entries)
        /\ \A g \in DOMAIN identity_to_entries :
               /\ identity_to_entries'[g].key = identity_to_entries[g].key
               /\ Len(identity_to_entries'[g].entries) >= Len(identity_to_entries[g].entries)
        /\ \A loc \in Locations :
               LET old == EntryAt(loc)
                   new == identity_to_entries'[loc[1]].entries[loc[2]]
               IN  IF merged_into'[pos] = loc
                   THEN /\ Len(new.row) = Len(old.row)
                        /\ \A c \in DOMAIN old.row :
                               new.row[c] # old.row[c] =>
                                   \/ c = count_index
                                   \/ c \in Range(optional_indices) /\ old.opt_norm[c] = <<>>
                        /\ \A i \in Range(optional_indices) :
                               new.opt_norm[i] # old.opt_norm[i] => old.opt_norm[i] = <<>>
                        /\ new.count = old.count + RowCount(rows[pos])
                   ELSE new = old

\* C30: merging a row into an entry changes only that entry's count, its
\* template Count cell and the optional cells and profile values that were
\* empty (as normalized) in the entry; identity cells and non-empty optional
\* values stay, every other entry is unchanged, and no entry is removed or
\* combined with another.
MergeFrame == [][MergeFrameStep]_vars

\* the third row went into the first entry and filled an optional cell of its
\* template, while another entry made in between stayed as it was
MergeFrameWitness ==
    /\ pc = "scan"
    /\ Len(merged_into) = 3
    /\ merged_into[1] = <<1, 1>>
    /\ merged_into[2] # <<1, 1>>
    /\ merged_into[3] = <<1, 1>>
    /\ \E i \in Range(optional_indices) :
           /\ rows[1][i] = <<>>
           /\ rows[3][i] # <<>>
           /\ EntryAt(<<1, 1>>).row[i] = rows[3][i]
    /\ EntryAt(merged_into[2]).row = [rows[2] EXCEPT ![count_index] = IntToStr(RowCount(rows[2]))]

====
